---- MODULE Spec2Model ----
(***************************************************************************)
(* A model of the MCP tool-plane of autonomous-ollama: the MCPManager of   *)
(* server/mcp.go (pending and connected servers, tool routing, catalog     *)
(* cache, discovered tools, JIT discovery, execution planner) and the      *)
(* pattern matcher of server/mcp_jit.go.                                   *)
(*                                                                         *)
(* Every manager method is split at the points where it acquires or        *)
(* releases the manager mutex m.mu or enters a transport-client call, so   *)
(* that callers (goroutines) interleave exactly where the code lets them.  *)
(* Strings that the code inspects character by character (tool names and   *)
(* patterns) are sequences of one-character strings.                       *)
(***************************************************************************)
EXTENDS Integers, Sequences, FiniteSets, TLC

(***************************************************************************)
(* Bounds and inputs                                                       *)
(***************************************************************************)

\* NewMCPManager is called with maxClients in 1..MaxClientsArg
MaxClientsArg == 2

\* NewMCPManager is called with maxToolsPerDiscovery in 0..MaxToolsArg
MaxToolsArg == 1

\* the default NewMCPManager substitutes for maxToolsPerDiscovery <= 0
DefaultMaxToolsPerDiscovery == 5

\* the goroutines calling into one manager
Procs == {"g1"}

NoOne == "-"

\* server names offered to the manager
Servers == {"fs", "git"}

\* an api.MCPServerConfig: Name, Command, Args, the names of the variables
\* of Env, and Transport ("" is stdio)
ConfigA(n, c, t, args, env) ==
  [Name |-> n, Command |-> c, Transport |-> t, Args |-> args, Env |-> env]
ConfigT(n, c, t) == ConfigA(n, c, t, << >>, {})
Config(n, c) == ConfigT(n, c, "")

\* descriptors offered to AddServerLazy and AddServer: a stdio and an http
\* one that pass the validator, one with an empty name, one with a refused
\* command, and an http one without command
Configs == { Config("fs", "npx"), ConfigT("git", "npx", "http"), Config("", "npx"),
             Config("fs", "bash"), ConfigT("git", "", "http") }

\* tool names, as character sequences
RF == <<"r", "f">>
WF == <<"w", "f">>
GS == <<"g", "s">>
LF == <<"l", "f">>

\* an api.Tool: its Function.Name and its schema (Desc stands for the
\* description and parameters, which differ from server to server)
Tool(n, d) == [Name |-> n, Desc |-> d]

\* what each server answers to tools/list
ServerCatalog(s) ==
  IF s = "fs" THEN << Tool(RF, "fs"), Tool(WF, "fs"), Tool(LF, "fs") >>
  ELSE IF s = "git" THEN << Tool(GS, "git"), Tool(RF, "git") >>
  ELSE << >>

\* patterns the model passes to mcp_discover
Patterns == { <<"*">>, <<"*", "F", "*">> }

\* tool lists passed to AddDiscoveredTools
DiscoveredInputs == { << Tool(WF, "fs"), Tool(GS, "git") >> }

MCPDiscoverName == <<"m", "c", "p", "_", "d", "i", "s", "c", "o", "v", "e", "r">>
MCPDiscoverTool == Tool(MCPDiscoverName, "builtin")

(***************************************************************************)
(* Maps (Go map[K]V) as functions                                          *)
(***************************************************************************)

EmptyMap == [x \in {} |-> NoOne]
MapPut(f, k, v) == [x \in (DOMAIN f) \cup {k} |-> IF x = k THEN v ELSE f[x]]
MapDel(f, k) == [x \in (DOMAIN f) \ {k} |-> f[x]]

Range(s) == { s[i] : i \in 1..Len(s) }
Names(ts) == { ts[i].Name : i \in 1..Len(ts) }

(***************************************************************************)
(* strings.ToLower, strings.Contains, strings.Trim, filepath.Match         *)
(***************************************************************************)

UpperLetters == << "A", "B", "C", "D", "E", "F", "G", "H", "I", "J", "K", "L", "M",
                  "N", "O", "P", "Q", "R", "S", "T", "U", "V", "W", "X", "Y", "Z" >>
LowerLetters == << "a", "b", "c", "d", "e", "f", "g", "h", "i", "j", "k", "l", "m",
                  "n", "o", "p", "q", "r", "s", "t", "u", "v", "w", "x", "y", "z" >>

\* the ASCII characters of patterns and names in the order of their codes
Ascii ==
  << " ", "!", "\"", "#", "$", "%", "&", "'", "(", ")", "*", "+", ",", "-", ".", "/",
     "0", "1", "2", "3", "4", "5", "6", "7", "8", "9", ":", ";", "<", "=", ">", "?", "@" >>
  \o UpperLetters \o << "[", "\\", "]", "^", "_" >> \o LowerLetters
  \o << "{", "|", "}", "~" >>

\* the place of a character in the order of the codes
Ord(c) == CHOOSE i \in DOMAIN Ascii : Ascii[i] = c

\* strings.ToLower on one ASCII character: every upper-case letter is lowered
LowerChar(c) ==
  IF \E i \in DOMAIN UpperLetters : UpperLetters[i] = c
  THEN LowerLetters[CHOOSE i \in DOMAIN UpperLetters : UpperLetters[i] = c]
  ELSE c

ToLower(s) == [i \in 1..Len(s) |-> LowerChar(s[i])]

Drop(s, n) == SubSeq(s, n + 1, Len(s))

HasPrefix(s, p) == Len(p) <= Len(s) /\ SubSeq(s, 1, Len(p)) = p
HasSuffix(s, p) == Len(p) <= Len(s) /\ SubSeq(s, Len(s) - Len(p) + 1, Len(s)) = p

Contains(s, sub) ==
  \E i \in 0..(Len(s) - Len(sub)) : SubSeq(s, i + 1, i + Len(sub)) = sub

RECURSIVE TrimLeft(_, _)
TrimLeft(s, c) == IF s # << >> /\ Head(s) = c THEN TrimLeft(Tail(s), c) ELSE s

RECURSIVE TrimRight(_, _)
TrimRight(s, c) ==
  IF s # << >> /\ s[Len(s)] = c THEN TrimRight(SubSeq(s, 1, Len(s) - 1), c) ELSE s

Trim(s, c) == TrimRight(TrimLeft(s, c), c)

Separator == "/"

\* filepath.scanChunk, the scan loop: the index after the chunk. A
\* backslash takes the next character with it, and a star inside [...] does
\* not end the chunk
RECURSIVE ChunkEnd(_, _, _)
ChunkEnd(p, i, inrange) ==
  IF i > Len(p) THEN i
  ELSE IF p[i] = "\\" THEN ChunkEnd(p, IF i + 1 <= Len(p) THEN i + 2 ELSE i + 1, inrange)
  ELSE IF p[i] = "[" THEN ChunkEnd(p, i + 1, TRUE)
  ELSE IF p[i] = "]" THEN ChunkEnd(p, i + 1, FALSE)
  ELSE IF p[i] = "*" /\ ~ inrange THEN i
  ELSE ChunkEnd(p, i + 1, inrange)

\* filepath.scanChunk: the leading stars and the text up to the next star
ScanChunk(pattern) ==
  LET Cut(rest, e) == [ star |-> rest # pattern,
                        chunk |-> SubSeq(rest, 1, e - 1),
                        rest |-> SubSeq(rest, e, Len(rest)) ]
      Scan(rest) == Cut(rest, ChunkEnd(rest, 1, FALSE))
  IN  Scan(TrimLeft(pattern, "*"))

\* what matchChunk returns when the chunk does not match, and when the
\* pattern is malformed (ErrBadPattern)
NoMatch == [ok |-> FALSE, rest |-> << >>, err |-> FALSE]
BadPattern == [ok |-> FALSE, rest |-> << >>, err |-> TRUE]

\* filepath.getEsc: one character of a class, escaped or not; a class must
\* not end after it
GetEsc(chunk) ==
  LET BadEsc == [err |-> TRUE, r |-> "", chunk |-> << >>]
      Take(c) == IF c = << >> \/ Tail(c) = << >> THEN BadEsc
                 ELSE [err |-> FALSE, r |-> Head(c), chunk |-> Tail(c)]
  IN  IF chunk = << >> \/ Head(chunk) \in {"-", "]"} THEN BadEsc
      ELSE Take(IF Head(chunk) = "\\" THEN Tail(chunk) ELSE chunk)

\* lo <= r && r <= hi; r is "" when the match has failed before the class
InRange(lo, r, hi) == r # "" /\ Ord(lo) <= Ord(r) /\ Ord(r) <= Ord(hi)

\* filepath.matchChunk, the loop over the ranges of a class
RECURSIVE ClassRanges(_, _, _, _)
ClassRanges(chunk, r, match, some) ==
  LET BadClass == [err |-> TRUE, chunk |-> << >>, match |-> FALSE]
      UpTo(lo, hi) ==
        IF hi.err THEN BadClass
        ELSE ClassRanges(hi.chunk, r, match \/ InRange(lo.r, r, hi.r), TRUE)
      From(lo) ==
        IF lo.err THEN BadClass
        ELSE IF Head(lo.chunk) = "-" THEN UpTo(lo, GetEsc(Tail(lo.chunk)))
        ELSE ClassRanges(lo.chunk, r, match \/ InRange(lo.r, r, lo.r), TRUE)
  IN  IF chunk # << >> /\ Head(chunk) = "]" /\ some
      THEN [err |-> FALSE, chunk |-> Tail(chunk), match |-> match]
      ELSE From(GetEsc(chunk))

\* filepath.matchChunk: after the match has failed the rest of the chunk is
\* still parsed, and s is no longer read
RECURSIVE MatchFrom(_, _, _)
MatchFrom(chunk, s, failed0) ==
  LET Class(cl, negated, s1, failed) ==
        IF cl.err THEN BadPattern
        ELSE MatchFrom(cl.chunk, s1, failed \/ (cl.match = negated))
      Bracket(r, negated, s1, failed) ==
        Class(ClassRanges(IF negated THEN Tail(Tail(chunk)) ELSE Tail(chunk),
                          r, FALSE, FALSE),
              negated, s1, failed)
      Literal(lit, s1, failed) ==
        IF lit = << >> THEN BadPattern
        ELSE MatchFrom(Tail(lit), s1, failed \/ Head(lit) # Head(s))
      Step(s1, failed) ==
        IF Head(chunk) = "["
        THEN Bracket(IF failed THEN "" ELSE Head(s),
                     Tail(chunk) # << >> /\ Head(Tail(chunk)) = "^", s1, failed)
        ELSE IF Head(chunk) = "?"
        THEN MatchFrom(Tail(chunk), s1, failed \/ Head(s) = Separator)
        ELSE Literal(IF Head(chunk) = "\\" THEN Tail(chunk) ELSE chunk, s1, failed)
      Failed(failed) == Step(IF failed THEN s ELSE Tail(s), failed)
  IN  IF chunk = << >>
      THEN IF failed0 THEN NoMatch ELSE [ok |-> TRUE, rest |-> s, err |-> FALSE]
      ELSE Failed(failed0 \/ s = << >>)

\* filepath.matchChunk: the unmatched rest of s, no match, or ErrBadPattern
MatchChunk(chunk, s) == MatchFrom(chunk, s, FALSE)

\* the positions at which a chunk that follows a star is tried: i+1 bytes
\* are skipped, and a separator is never skipped
RECURSIVE SkipFrom(_, _, _, _)
SkipFrom(chunk, name, i, last) ==
  LET Tried(m) == IF m.ok /\ ~(last /\ m.rest # << >>) THEN m
                  ELSE IF m.err THEN BadPattern
                  ELSE SkipFrom(chunk, name, i + 1, last)
  IN  IF i >= Len(name) \/ name[i + 1] = Separator THEN NoMatch
      ELSE Tried(MatchChunk(chunk, Drop(name, i + 1)))

\* filepath.Match, before it returns false: the rest of the pattern is
\* checked for its syntax
RECURSIVE RestMalformed(_)
RestMalformed(pattern) ==
  LET Check(sc) == MatchChunk(sc.chunk, << >>).err \/ RestMalformed(sc.rest)
  IN  IF pattern = << >> THEN FALSE ELSE Check(ScanChunk(pattern))

\* filepath.Match: matched and whether the error is ErrBadPattern
RECURSIVE FilepathMatch(_, _)
FilepathMatch(pattern, name) ==
  LET Bad == [matched |-> FALSE, err |-> TRUE]
      No(sc) == [matched |-> FALSE, err |-> RestMalformed(sc.rest)]
      Skipped(sc, k) == IF k.ok THEN FilepathMatch(sc.rest, k.rest)
                        ELSE IF k.err THEN Bad ELSE No(sc)
      Chunk(sc, m) ==
        IF sc.star /\ sc.chunk = << >>
        THEN [matched |-> ~ Contains(name, <<Separator>>), err |-> FALSE]
        ELSE IF m.ok /\ (m.rest = << >> \/ sc.rest # << >>)
        THEN FilepathMatch(sc.rest, m.rest)
        ELSE IF m.err THEN Bad
        ELSE IF sc.star THEN Skipped(sc, SkipFrom(sc.chunk, name, 0, sc.rest = << >>))
        ELSE No(sc)
      Scanned(sc) == Chunk(sc, MatchChunk(sc.chunk, name))
  IN  IF pattern = << >> THEN [matched |-> name = << >>, err |-> FALSE]
      ELSE Scanned(ScanChunk(pattern))

\* matched, err := filepath.Match(pattern, toolName); err == nil && matched
GlobMatches(pattern, toolName) ==
  LET Matched(m) == ~ m.err /\ m.matched IN Matched(FilepathMatch(pattern, toolName))

\* MatchToolPattern, lines 138-172: the decisions on the two strings
MatchSteps(pattern, toolName) ==
  LET Trimmed(trimmed) ==
        trimmed # << >> /\ trimmed # pattern /\ Contains(toolName, trimmed)
  IN  \/ pattern = toolName
      \/ pattern = <<"*">>
      \/ Trimmed(Trim(pattern, "*"))
      \/ GlobMatches(pattern, toolName)
      \/ (~ HasPrefix(pattern, <<"*">>) /\ ~ HasSuffix(pattern, <<"*">>)
          /\ Contains(toolName, pattern))

\* a matcher that compares the strings as they are written
MatchToolPatternCaseSensitive(pattern, toolName) == MatchSteps(pattern, toolName)

\* MatchToolPattern, lines 134-135: both strings are lowered first
MatchToolPattern(pattern0, toolName0) ==
  MatchSteps(ToLower(pattern0), ToLower(toolName0))

(***************************************************************************)
(* Security validator (mcp.go validateServerConfig)                        *)
(***************************************************************************)

\* the commands the security policy refuses
DeniedCommands ==
  {"sh", "bash", "zsh", "dash", "ksh", "fish", "sudo", "su", "doas",
   "rm", "dd", "mkfs", "curl", "wget", "nc", "ncat", "socat"}

IsCommandAllowed(command) == command \notin DeniedCommands

\* the limits of the validator: len(config.Name) > 100, len(arg) > 50
MaxServerNameLen == 100
MaxDashArgLen == 50

\* a server name of 101 characters and an argument of 51 that starts with "-"
LongName == "nnnnnnnnnnnnnnnnnnnnnnnnnnnnnnnnnnnnnnnnnnnnnnnnnnnnnnnnnnnnnnnnnnnnnnnnnnnnnnnnnnnnnnnnnnnnnnnnnnnnn"
LongDashArg == "-xxxxxxxxxxxxxxxxxxxxxxxxxxxxxxxxxxxxxxxxxxxxxxxxxx"

\* the character U+0060, which a string of this language cannot hold
Backquote == "U+0060"

\* the argument a, backquote, b
BackquoteArg == "a U+0060 b"

\* the characters of the strings that descriptors are written with
Text(s) ==
  CASE s = "" -> << >>
    [] s = "fs" -> <<"f", "s">>
    [] s = "git" -> <<"g", "i", "t">>
    [] s = "a/b" -> <<"a", "/", "b">>
    [] s = "a:b" -> <<"a", ":", "b">>
    [] s = LongName -> [i \in 1..(MaxServerNameLen + 1) |-> "n"]
    [] s = "npx" -> <<"n", "p", "x">>
    [] s = "node" -> <<"n", "o", "d", "e">>
    [] s = "bash" -> <<"b", "a", "s", "h">>
    [] s = "../npx" -> <<".", ".", "/", "n", "p", "x">>
    [] s = "-y" -> <<"-", "y">>
    [] s = "../x" -> <<".", ".", "/", "x">>
    [] s = "/data;rm" -> <<"/", "d", "a", "t", "a", ";", "r", "m">>
    [] s = LongDashArg -> [i \in 1..(MaxDashArgLen + 1) |-> IF i = 1 THEN "-" ELSE "x"]
    [] s = "PATH" -> <<"P", "A", "T", "H">>
    [] s = "A;B" -> <<"A", ";", "B">>
    [] s = "$(x)" -> <<"$", "(", "x", ")">>
    [] s = BackquoteArg -> <<"a", Backquote, "b">>
    [] s = "A{B}" -> <<"A", "{", "B", "}">>
    [] s = "a\nb" -> <<"a", "\n", "b">>

\* strings.ContainsAny
ContainsAnyOf(s, chars) == \E i \in 1..Len(s) : s[i] \in chars

\* the characters a server name must not contain
InvalidNameChars == {"/", "\\", ":", "*", "?", "\"", "<", ">", "|"}

\* SecurityConfig.HasShellMetacharacters: ; & | backquote $ ( ) { } < > and
\* the newline
ShellMetacharacters ==
  {";", "&", "|", Backquote, "$", "(", ")", "{", "}", "<", ">", "\n"}
HasShellMetacharacters(s) == ContainsAnyOf(Text(s), ShellMetacharacters)

\* validateServerConfig, lines 893-904: one argument
SuspiciousArg(arg) ==
  \/ Contains(Text(arg), <<".", ".">>)
  \/ (HasPrefix(Text(arg), <<"-">>) /\ Len(Text(arg)) > MaxDashArgLen)
  \/ HasShellMetacharacters(arg)

\* "" is the nil error
validateServerConfig(config) ==
  IF config.Name = "" THEN "invalid_config"
  ELSE IF Len(Text(config.Name)) > MaxServerNameLen THEN "invalid_config"
  ELSE IF ContainsAnyOf(Text(config.Name), InvalidNameChars) THEN "invalid_config"
  ELSE IF config.Command = "" THEN "invalid_config"
  ELSE IF ~ IsCommandAllowed(config.Command) THEN "invalid_config"
  ELSE IF Contains(Text(config.Command), <<".", ".">>) THEN "invalid_config"
  ELSE IF \E i \in 1..Len(config.Args) : SuspiciousArg(config.Args[i]) THEN "invalid_config"
  ELSE IF \E key \in config.Env : HasShellMetacharacters(key) THEN "invalid_config"
  ELSE ""

(***************************************************************************)
(* State                                                                   *)
(***************************************************************************)

VARIABLES
  clients,              \* m.clients: the names that have a connected client
  toolRouting,          \* m.toolRouting: tool name -> server name
  pendingConfigs,       \* m.pendingConfigs: server name -> descriptor
  discoveredTools,      \* m.discoveredTools: tool name -> tool
  allToolsCache,        \* m.allToolsCache: server name -> tool list
  maxClients,           \* m.maxClients
  maxToolsPerDiscovery, \* m.maxToolsPerDiscovery
  mu,                   \* m.mu: the goroutine holding the write lock, the readers
  pc,                   \* where each goroutine is inside a manager method
  fr,                   \* each goroutine's locals
  ret,                  \* what each goroutine's last call returned
  transportClient       \* one MCPHTTPClient or MCPWebSocketClient: its fields

vars == << clients, toolRouting, pendingConfigs, discoveredTools, allToolsCache,
           maxClients, maxToolsPerDiscovery, mu, pc, fr, ret, transportClient >>

maps == << clients, toolRouting, pendingConfigs, discoveredTools, allToolsCache >>
limits == << maxClients, maxToolsPerDiscovery >>

Free == [writer |-> NoOne, readers |-> {}]
Held(g) == [writer |-> g, readers |-> {}]
LockFree == mu = Free
CanRLock == mu.writer = NoOne

NoConfig == ConfigT("", "", "")

\* no transport client under observation; sent are the methods of the
\* messages the client has written to its connection so far
NoClient == [kind |-> NoOne, name |-> << >>, initialized |-> FALSE, sessionID |-> "",
             tools |-> << >>, sent |-> {},
             requestID |-> 0, responses |-> EmptyMap, conn |-> "nil",
             incoming |-> << >>, cancelled |-> FALSE, done |-> "open"]

NoFrame ==
  [ op |-> NoOne, stk |-> << >>, pattern |-> << >>, name |-> NoOne,
    config |-> NoConfig, matchedTools |-> << >>, serversTried |-> << >>,
    skipped |-> {}, snap |-> {}, phase |-> NoOne, tools |-> << >>,
    newTools |-> << >>, prevSame |-> FALSE, preFresh |-> FALSE,
    before |-> << >>, calls |-> << >> ]

\* op, err and tools are the call and what it returned; for HandleDiscovery
\* tools are the new tools, found is the number of matched tools, and the
\* rest records the circumstances of the call: closed are the servers whose
\* client had Close called during the call, changed whether the call changed
\* the manager's maps, prevSame whether it repeats the call before it, config
\* the descriptor of the call and client the kind of transport client it
\* constructed
NoRet ==
  [ op |-> NoOne, err |-> "", name |-> NoOne, pattern |-> << >>,
    tools |-> << >>, found |-> 0, serversTried |-> << >>,
    skipped |-> {}, prevSame |-> FALSE, preFresh |-> FALSE, changed |-> FALSE,
    calls |-> << >>, plan |-> << >>, closed |-> {}, wasPending |-> FALSE,
    results |-> << >>, tasks |-> << >>, config |-> NoConfig, client |-> NoOne,
    tool |-> << >>, requests |-> << >>, captured |-> "", matched |-> FALSE,
    id |-> 0 ]

Frame(op) == [NoFrame EXCEPT !.op = op]

Push(stk, x) == Append(stk, x)
Pop(stk) == SubSeq(stk, 1, Len(stk) - 1)

\* NewMCPManager
NewMCPManager(mc, mt) ==
  /\ clients = {}
  /\ toolRouting = EmptyMap
  /\ pendingConfigs = EmptyMap
  /\ maxClients = mc
  /\ discoveredTools = EmptyMap
  /\ allToolsCache = EmptyMap
  /\ maxToolsPerDiscovery = IF mt <= 0 THEN DefaultMaxToolsPerDiscovery ELSE mt

InitFor(P) ==
  /\ \E mc \in 1..MaxClientsArg, mt \in 0..MaxToolsArg : NewMCPManager(mc, mt)
  /\ mu = Free
  /\ transportClient = NoClient
  /\ pc = [g \in P |-> "idle"]
  /\ fr = [g \in P |-> NoFrame]
  /\ ret = [g \in P |-> NoRet]

Init == InitFor(Procs)

\* a top-level call returns
Done(g, r) ==
  /\ pc' = [pc EXCEPT ![g] = "idle"]
  /\ fr' = [fr EXCEPT ![g] = NoFrame]
  /\ ret' = [ret EXCEPT ![g] = r]

\* a call goes on; what the previous call returned is gone
Goto(g, label, f) ==
  /\ pc' = [pc EXCEPT ![g] = label]
  /\ fr' = [fr EXCEPT ![g] = f]
  /\ ret' = [ret EXCEPT ![g] = NoRet]

(***************************************************************************)
(* AddServerLazy                                                           *)
(***************************************************************************)

\* an admission that stores the descriptor without validating it
AddServerLazyUnchecked(g, config) ==
  /\ pc[g] = "idle"
  /\ LockFree
  /\ LET err == IF Cardinality(clients) + Cardinality(DOMAIN pendingConfigs) >= maxClients
                THEN "max_servers"
                ELSE ""
     IN  /\ pendingConfigs' = IF err = "" THEN MapPut(pendingConfigs, config.Name, config)
                              ELSE pendingConfigs
         /\ Done(g, [NoRet EXCEPT !.op = "AddServerLazy", !.err = err, !.name = config.Name,
                                   !.config = config,
                                   !.changed = (pendingConfigs' # pendingConfigs)])
  /\ UNCHANGED << clients, toolRouting, discoveredTools, allToolsCache, limits, transportClient, mu >>

AddServerLazy(g, config) ==
  /\ pc[g] = "idle"
  /\ LockFree
  /\ LET err == IF Cardinality(clients) + Cardinality(DOMAIN pendingConfigs) >= maxClients
                THEN "max_servers"
                ELSE validateServerConfig(config)
     IN  /\ pendingConfigs' = IF err = "" THEN MapPut(pendingConfigs, config.Name, config)
                              ELSE pendingConfigs
         /\ Done(g, [NoRet EXCEPT !.op = "AddServerLazy", !.err = err, !.name = config.Name,
                                   !.config = config,
                                   !.changed = (pendingConfigs' # pendingConfigs)])
  /\ UNCHANGED << clients, toolRouting, discoveredTools, allToolsCache, limits, transportClient, mu >>

(***************************************************************************)
(* Transport client calls as seen by the manager                           *)
(***************************************************************************)

\* NewMCPClient(config.Name, config.Command, config.Args, config.Env), lines
\* 239 and 313: the kind of transport client the manager constructs
NewMCPClient(config) == "stdio"

\* client.Initialize followed by client.ListTools
ConnectOutcomes == {"", "init_failed", "list_failed"}

\* a failed connect that leaves the half-open client open
HalfOpenLeaked(serverName) == {}

\* client.Close() after a failed Initialize or ListTools (lines 241, 248,
\* 316, 323): the servers whose client is closed
HalfOpenClosed(serverName) == {serverName}

\* a connect that forgets to register the listed tools
RouteNone(routing, tools, serverName) == routing

\* m.toolRouting[tool.Function.Name] = serverName for every listed tool
RouteAll(routing, tools, serverName) ==
  [n \in (DOMAIN routing) \cup Names(tools) |->
     IF n \in Names(tools) THEN serverName ELSE routing[n]]

(***************************************************************************)
(* GetToolsFromServer and EnsureConnected                                  *)
(***************************************************************************)

\* GetToolsFromServer returns to its caller: SearchTools or the goroutine
GT_Return(g, f, err, tools) ==
  IF f.stk = << >>
  THEN Done(g, [NoRet EXCEPT !.op = "GetToolsFromServer", !.err = err,
                             !.name = f.name, !.tools = tools])
  ELSE Goto(g, "ST_relock",
            [f EXCEPT !.stk = Pop(@), !.tools = tools,
                      !.phase = IF err = "" THEN "gt_ok" ELSE "gt_err"])

\* EnsureConnected returns to its caller: GetToolsFromServer or the goroutine
EC_Return(g, f, err, closed, changed) ==
  IF f.stk = << >>
  THEN Done(g, [NoRet EXCEPT !.op = "EnsureConnected", !.err = err, !.name = f.name,
                             !.closed = closed, !.changed = changed,
                             !.prevSame = f.prevSame,
                             !.wasPending = (f.config # NoConfig),
                             !.config = f.config,
                             !.client = IF f.config # NoConfig THEN NewMCPClient(f.config)
                                        ELSE NoOne])
  ELSE IF err = ""
       THEN Goto(g, "GT_reread", [f EXCEPT !.stk = Pop(@)])
       ELSE GT_Return(g, [f EXCEPT !.stk = Pop(@)], err, << >>)

\* EnsureConnected, lines 224-239: up to the call of client.Initialize
EC_Body(g, f) ==
  /\ LockFree
  /\ IF f.name \in clients
     THEN mu' = mu /\ EC_Return(g, f, "", {}, FALSE)
     ELSE IF f.name \notin DOMAIN pendingConfigs
          THEN mu' = mu /\ EC_Return(g, f, "not_configured", {}, FALSE)
          ELSE /\ mu' = Held(g)
               /\ Goto(g, "EC_io", [f EXCEPT !.config = pendingConfigs[f.name]])
  /\ UNCHANGED << maps, limits, transportClient >>

EnsureConnected(g, serverName) ==
  /\ pc[g] = "idle"
  /\ EC_Body(g, [Frame("EnsureConnected") EXCEPT
                    !.name = serverName,
                    !.prevSame = /\ ret[g].op = "EnsureConnected"
                                 /\ ret[g].name = serverName
                                 /\ ret[g].err \in {"init_failed", "list_failed"}])

EC_Lock(g) ==
  /\ pc[g] = "EC_lock"
  /\ EC_Body(g, fr[g])

\* EnsureConnected, lines 240-260: Initialize and ListTools have returned
EC_Connect(g) ==
  /\ pc[g] = "EC_io"
  /\ \E err \in ConnectOutcomes :
       /\ IF err = ""
          THEN /\ toolRouting' = RouteAll(toolRouting, ServerCatalog(fr[g].name), fr[g].name)
               /\ clients' = clients \cup {fr[g].name}
               /\ pendingConfigs' = MapDel(pendingConfigs, fr[g].name)
          ELSE UNCHANGED << toolRouting, clients, pendingConfigs >>
       /\ EC_Return(g, fr[g], err,
                    IF err = "" THEN {} ELSE HalfOpenClosed(fr[g].name),
                    << toolRouting', clients', pendingConfigs' >>
                      # << toolRouting, clients, pendingConfigs >>)
  /\ mu' = Free
  /\ UNCHANGED << discoveredTools, allToolsCache, limits, transportClient >>

\* GetToolsFromServer, lines 265-277: the first look at m.clients
GT_Body(g, f) ==
  /\ CanRLock
  /\ IF f.name \in clients
     THEN Goto(g, "GT_list", f)
     ELSE Goto(g, "EC_lock", [f EXCEPT !.stk = Push(@, "GT")])
  /\ UNCHANGED << maps, limits, transportClient, mu >>

GetToolsFromServer(g, serverName) ==
  /\ pc[g] = "idle"
  /\ GT_Body(g, [Frame("GetToolsFromServer") EXCEPT !.name = serverName])

GT_RLock(g) ==
  /\ pc[g] = "GT_rlock"
  /\ GT_Body(g, fr[g])

\* GetToolsFromServer, lines 274-281: the second look, after EnsureConnected
GT_Reread(g) ==
  /\ pc[g] = "GT_reread"
  /\ CanRLock
  /\ IF fr[g].name \in clients
     THEN Goto(g, "GT_list", fr[g])
     ELSE GT_Return(g, fr[g], "not_found", << >>)
  /\ UNCHANGED << maps, limits, transportClient, mu >>

\* GetToolsFromServer, line 283: client.ListTools, outside the lock
GT_List(g) ==
  /\ pc[g] = "GT_list"
  /\ \/ GT_Return(g, fr[g], "", ServerCatalog(fr[g].name))
     \/ GT_Return(g, fr[g], "list_failed", << >>)
  /\ UNCHANGED << maps, limits, transportClient, mu >>

(***************************************************************************)
(* AddServer                                                               *)
(***************************************************************************)

\* AddServer returns to its caller: SearchTools or the goroutine
AS_Return(g, f, err, closed, client, changed) ==
  IF f.stk = << >>
  THEN Done(g, [NoRet EXCEPT !.op = "AddServer", !.err = err, !.name = f.config.Name,
                             !.closed = closed, !.config = f.config,
                             !.client = client, !.changed = changed])
  ELSE Goto(g, "ST_relock",
            [f EXCEPT !.stk = Pop(@),
                      !.phase = IF err = "" THEN "as_ok" ELSE "as_err"])

\* AddServer, lines 296-313: up to the call of client.Initialize
AS_Body(g, f) ==
  /\ LockFree
  /\ LET err == IF Cardinality(clients) >= maxClients THEN "max_servers"
                ELSE IF f.config.Name \in clients THEN "exists"
                ELSE validateServerConfig(f.config)
     IN  IF err # ""
         THEN mu' = mu /\ AS_Return(g, f, err, {}, NoOne, FALSE)
         ELSE mu' = Held(g) /\ Goto(g, "AS_io", f)
  /\ UNCHANGED << maps, limits, transportClient >>

AddServer(g, config) ==
  /\ pc[g] = "idle"
  /\ AS_Body(g, [Frame("AddServer") EXCEPT !.config = config])

AS_Lock(g) ==
  /\ pc[g] = "AS_lock"
  /\ AS_Body(g, fr[g])

\* AddServer, lines 315-335: Initialize and ListTools have returned
AS_Connect(g) ==
  /\ pc[g] = "AS_io"
  /\ \E err \in ConnectOutcomes :
       /\ IF err = ""
          THEN /\ toolRouting' = RouteAll(toolRouting, ServerCatalog(fr[g].config.Name),
                                          fr[g].config.Name)
               /\ clients' = clients \cup {fr[g].config.Name}
          ELSE UNCHANGED << toolRouting, clients >>
       /\ AS_Return(g, fr[g], err,
                    IF err = "" THEN {} ELSE HalfOpenClosed(fr[g].config.Name),
                    NewMCPClient(fr[g].config),
                    << toolRouting', clients' >> # << toolRouting, clients >>)
  /\ mu' = Free
  /\ UNCHANGED << pendingConfigs, discoveredTools, allToolsCache, limits, transportClient >>

(***************************************************************************)
(* SearchTools and HandleDiscovery                                         *)
(***************************************************************************)

\* seen[tool.Function.Name]: seen is set exactly when a tool is appended
Seen(matchedTools, name) == name \in Names(matchedTools)

\* a limit test that lets one tool too many through
LimitReachedLate(matchedTools, limit) == Len(matchedTools) > limit

\* len(matchedTools) >= m.maxToolsPerDiscovery
LimitReached(matchedTools, limit) == Len(matchedTools) >= limit

\* SearchTools, lines 762-777: the scan of one server's tool list
RECURSIVE MatchLoop(_, _, _, _, _, _, _)
MatchLoop(tools, i, matchedTools, routing, pattern, serverName, limit) ==
  IF i > Len(tools)
  THEN [matchedTools |-> matchedTools, routing |-> routing, full |-> FALSE]
  ELSE IF Seen(matchedTools, tools[i].Name) \/ ~ MatchToolPattern(pattern, tools[i].Name)
       THEN MatchLoop(tools, i + 1, matchedTools, routing, pattern, serverName, limit)
       ELSE LET m2 == Append(matchedTools, tools[i])
                r2 == MapPut(routing, tools[i].Name, serverName)
            IN  IF LimitReached(m2, limit)
                THEN [matchedTools |-> m2, routing |-> r2, full |-> TRUE]
                ELSE MatchLoop(tools, i + 1, m2, r2, pattern, serverName, limit)

HD_Ret(f, newTools, discovered) ==
  [NoRet EXCEPT !.op = "HandleDiscovery", !.pattern = f.pattern,
                !.tools = newTools, !.found = Len(f.matchedTools),
                !.serversTried = f.serversTried, !.skipped = f.skipped,
                !.prevSame = f.prevSame, !.preFresh = f.preFresh,
                !.changed = discovered # f.before]

\* SearchTools returns into HandleDiscovery, lines 788-798
ST_Return(g, f) ==
  IF f.matchedTools = << >>
  THEN Done(g, HD_Ret(f, << >>, discoveredTools))
  ELSE Goto(g, "HD_filter", f)

\* SearchTools, lines 762-780, holding the lock, with the tool list in f.tools
ST_Match(g, f, cache) ==
  LET r == MatchLoop(f.tools, 1, f.matchedTools, toolRouting, f.pattern, f.name,
                     maxToolsPerDiscovery)
      f2 == [f EXCEPT !.matchedTools = r.matchedTools]
  IN  /\ allToolsCache' = cache
      /\ toolRouting' = r.routing
      /\ IF r.full
         THEN mu' = Free /\ ST_Return(g, f2)
         ELSE mu' = Held(g) /\ Goto(g, "ST_loop", f2)

\* SearchTools, lines 745-760, holding the lock: the cache or the server
ST_Cache(g, f) ==
  IF f.name \in DOMAIN allToolsCache
  THEN ST_Match(g, [f EXCEPT !.tools = allToolsCache[f.name]], allToolsCache)
  ELSE /\ mu' = Free
       /\ Goto(g, "GT_rlock", [f EXCEPT !.stk = Push(@, "ST")])
       /\ UNCHANGED << allToolsCache, toolRouting >>

\* the state a manager has after NewMCPManager and one AddServerLazy
FreshOnePending ==
  /\ clients = {} /\ toolRouting = EmptyMap /\ discoveredTools = EmptyMap
  /\ allToolsCache = EmptyMap /\ Cardinality(DOMAIN pendingConfigs) = 1

\* HandleDiscovery calls SearchTools, which takes the lock (lines 788, 721-726)
HandleDiscovery(g, pattern) ==
  /\ pc[g] = "idle"
  /\ LockFree
  /\ mu' = Held(g)
  /\ Goto(g, "ST_loop",
          [Frame("HandleDiscovery") EXCEPT
             !.pattern = pattern,
             !.snap = DOMAIN pendingConfigs,
             !.prevSame = ret[g].op = "HandleDiscovery" /\ ret[g].pattern = pattern
                          /\ ret[g].skipped = {},
             !.preFresh = FreshOnePending,
             !.before = discoveredTools])
  /\ UNCHANGED << maps, limits, transportClient >>

\* SearchTools, lines 729-743: one turn of the range over m.pendingConfigs.
\* The range yields the entries in any order; an entry added while the
\* lock was released may be yielded or not.
ST_Iter(g) ==
  /\ pc[g] = "ST_loop"
  /\ LET f == fr[g]
         remaining == (DOMAIN pendingConfigs) \ Range(f.serversTried)
     IN  \/ /\ remaining \cap f.snap = {}
            /\ mu' = Free
            /\ ST_Return(g, f)
            /\ UNCHANGED << allToolsCache, toolRouting >>
         \/ \E s \in remaining :
              LET f1 == [f EXCEPT !.serversTried = Append(@, s), !.name = s,
                                  !.config = pendingConfigs[s]]
              IN  IF s \notin clients
                  THEN /\ mu' = Free
                       /\ Goto(g, "AS_lock", [f1 EXCEPT !.stk = Push(@, "ST")])
                       /\ UNCHANGED << allToolsCache, toolRouting >>
                  ELSE ST_Cache(g, f1)
  /\ UNCHANGED << clients, pendingConfigs, discoveredTools, limits, transportClient >>

\* a failed server that makes the scan forget what it matched before
SkipServerForgetting(f) == [f EXCEPT !.skipped = @ \cup {f.name}, !.matchedTools = << >>]

\* SearchTools, lines 739-742 and 754-757: `continue` after a failed
\* AddServer or GetToolsFromServer; the server stays in serversTried
SkipServer(f) == [f EXCEPT !.skipped = @ \cup {f.name}]

\* an error path that goes on to the next server without m.mu.Lock()
ContinueUnlocked(g) == Free

\* SearchTools, lines 739 and 753: m.mu.Lock() before `continue`
ContinueLocked(g) == Held(g)

\* SearchTools takes the lock again after AddServer (lines 739, 742) or
\* after GetToolsFromServer (line 753)
ST_Relock(g) ==
  /\ pc[g] = "ST_relock"
  /\ LockFree
  /\ LET f == fr[g]
     IN  CASE f.phase \in {"as_err", "gt_err"} ->
                /\ mu' = ContinueLocked(g)
                /\ Goto(g, "ST_loop", SkipServer(f))
                /\ UNCHANGED << allToolsCache, toolRouting >>
           [] f.phase = "as_ok" -> ST_Cache(g, f)
           [] f.phase = "gt_ok" -> ST_Match(g, f, MapPut(allToolsCache, f.name, f.tools))
  /\ UNCHANGED << clients, pendingConfigs, discoveredTools, limits, transportClient >>

\* HandleDiscovery, lines 800-808: the tools not yet discovered
NewTools(matchedTools, discovered) ==
  SelectSeq(matchedTools, LAMBDA t : t.Name \notin DOMAIN discovered)

HD_Filter(g) ==
  /\ pc[g] = "HD_filter"
  /\ CanRLock
  /\ Goto(g, "HD_add",
          [fr[g] EXCEPT !.newTools = NewTools(fr[g].matchedTools, discoveredTools)])
  /\ UNCHANGED << maps, limits, transportClient, mu >>

\* m.discoveredTools[tool.Function.Name] = tool for every tool of the list
RECURSIVE PutTools(_, _)
PutTools(discovered, tools) ==
  IF tools = << >> THEN discovered
  ELSE PutTools(MapPut(discovered, Head(tools).Name, Head(tools)), Tail(tools))

\* HandleDiscovery, lines 835-848
HD_Add(g) ==
  /\ pc[g] = "HD_add"
  /\ LockFree
  /\ discoveredTools' = PutTools(discoveredTools, fr[g].newTools)
  /\ Done(g, HD_Ret(fr[g], fr[g].newTools, discoveredTools'))
  /\ UNCHANGED << clients, toolRouting, pendingConfigs, allToolsCache, limits, transportClient, mu >>

(***************************************************************************)
(* RemoveServer, Close, GetAllTools                                        *)
(***************************************************************************)

\* RemoveServer, lines 348-353: the routing entries of one server go
DropRoutes(routing, name) ==
  [n \in { x \in DOMAIN routing : routing[x] # name } |-> routing[n]]

\* RemoveServer, lines 340-356: up to the call of client.Close
RemoveServer(g, name) ==
  /\ pc[g] = "idle"
  /\ LockFree
  /\ IF name \notin clients
     THEN /\ Done(g, [NoRet EXCEPT !.op = "RemoveServer", !.err = "not_found",
                                   !.name = name])
          /\ UNCHANGED << toolRouting, mu >>
     ELSE /\ toolRouting' = DropRoutes(toolRouting, name)
          /\ mu' = Held(g)
          /\ Goto(g, "RS_io", [Frame("RemoveServer") EXCEPT !.name = name])
  /\ UNCHANGED << clients, pendingConfigs, discoveredTools, allToolsCache, limits, transportClient >>

\* RemoveServer, lines 356-363: client.Close has returned (its error is logged)
RS_Close(g) ==
  /\ pc[g] = "RS_io"
  /\ clients' = clients \ {fr[g].name}
  /\ mu' = Free
  /\ Done(g, [NoRet EXCEPT !.op = "RemoveServer", !.name = fr[g].name,
                            !.closed = {fr[g].name}])
  /\ UNCHANGED << toolRouting, pendingConfigs, discoveredTools, allToolsCache, limits, transportClient >>

\* a Close that forgets to replace m.clients
CloseKeepsClients ==
  /\ toolRouting' = EmptyMap
  /\ UNCHANGED << clients, pendingConfigs, discoveredTools, allToolsCache >>

\* Close, lines 667-669: what Close clears
CloseClears ==
  /\ clients' = {}
  /\ toolRouting' = EmptyMap
  /\ UNCHANGED << pendingConfigs, discoveredTools, allToolsCache >>

\* Close, lines 656-662: up to the first client.Close
Close(g) ==
  /\ pc[g] = "idle"
  /\ LockFree
  /\ IF clients = {}
     THEN /\ CloseClears
          /\ mu' = mu
          /\ Done(g, [NoRet EXCEPT !.op = "Close", !.prevSame = (ret[g].op = "Close"),
                                    !.changed = (<< clients', toolRouting' >>
                                                   # << clients, toolRouting >>)])
     ELSE /\ mu' = Held(g)
          /\ Goto(g, "CL_io", [Frame("Close") EXCEPT !.prevSame = (ret[g].op = "Close")])
          /\ UNCHANGED maps
  /\ UNCHANGED << limits, transportClient >>

\* Close, lines 661-675: every client.Close has returned, with or without error
CL_Close(g) ==
  /\ pc[g] = "CL_io"
  /\ CloseClears
  /\ mu' = Free
  /\ \E err \in {"", "close_errors"} :
       Done(g, [NoRet EXCEPT !.op = "Close", !.err = err, !.closed = clients,
                             !.prevSame = fr[g].prevSame,
                             !.changed = (<< clients', toolRouting' >>
                                            # << clients, toolRouting >>)])
  /\ UNCHANGED << limits, transportClient >>

\* every enumeration of a finite set: the orders a range over a map can take
RECURSIVE SeqsOf(_)
SeqsOf(S) ==
  IF S = {} THEN { << >> }
  ELSE UNION { { <<x>> \o q : q \in SeqsOf(S \ {x}) } : x \in S }

RECURSIVE Flatten(_)
Flatten(ss) == IF ss = << >> THEN << >> ELSE Head(ss) \o Flatten(Tail(ss))

\* GetAllTools, lines 368-373: takes the read lock and calls client.ListTools
GetAllTools(g) ==
  /\ pc[g] = "idle"
  /\ CanRLock
  /\ IF clients = {}
     THEN mu' = mu /\ Done(g, [NoRet EXCEPT !.op = "GetAllTools"])
     ELSE /\ mu' = [mu EXCEPT !.readers = @ \cup {g}]
          /\ Goto(g, "GA_io", Frame("GetAllTools"))
  /\ UNCHANGED << maps, limits, transportClient >>

\* GetAllTools, lines 373-382: every ListTools has returned; a failed one is skipped
GA_List(g) ==
  /\ pc[g] = "GA_io"
  /\ \E failed \in SUBSET clients :
       \E order \in SeqsOf(clients \ failed) :
         Done(g, [NoRet EXCEPT !.op = "GetAllTools",
                    !.tools = Flatten([i \in 1..Len(order) |-> ServerCatalog(order[i])])])
  /\ mu' = [mu EXCEPT !.readers = @ \ {g}]
  /\ UNCHANGED << maps, limits, transportClient >>

(***************************************************************************)
(* GetActiveTools, AddDiscoveredTools                                      *)
(***************************************************************************)

\* a GetActiveTools that puts the meta-tool last
ActiveToolsLast(discovered, order) ==
  [i \in 1..Len(order) |-> discovered[order[i]]] \o << MCPDiscoverTool >>

\* GetActiveTools, lines 693-697, the range over m.discoveredTools taking `order`
ActiveTools(discovered, order) ==
  << MCPDiscoverTool >> \o [i \in 1..Len(order) |-> discovered[order[i]]]

\* everything GetActiveTools can return in the current state
GetActiveToolsResults ==
  { ActiveTools(discoveredTools, order) : order \in SeqsOf(DOMAIN discoveredTools) }

GetActiveTools(g) ==
  /\ pc[g] = "idle"
  /\ CanRLock
  /\ \E r \in GetActiveToolsResults :
       Done(g, [NoRet EXCEPT !.op = "GetActiveTools", !.tools = r])
  /\ UNCHANGED << maps, limits, transportClient, mu >>

AddDiscoveredTools(g, tools, serverName) ==
  /\ pc[g] = "idle"
  /\ LockFree
  /\ discoveredTools' = PutTools(discoveredTools, tools)
  /\ toolRouting' = RouteAll(toolRouting, tools, serverName)
  /\ Done(g, [NoRet EXCEPT !.op = "AddDiscoveredTools", !.name = serverName])
  /\ UNCHANGED << clients, pendingConfigs, allToolsCache, limits, transportClient, mu >>

(***************************************************************************)
(* ExecuteTool                                                             *)
(***************************************************************************)

\* an api.ToolCall: Function.Name and Function.Arguments; an argument
\* value is a string or something else (a number)
Str(v) == [type |-> "string", val |-> v]
Num(v) == [type |-> "number", val |-> v]
Call(n, args) == [Name |-> n, Arguments |-> args]
NoArgs == [k \in {} |-> Str("")]
PathArg(v) == [k \in {"path"} |-> v]
FileArg(v) == [k \in {"file"} |-> v]

\* a ToolResult: Content and Error, << >> for the empty string and for nil
ZeroResult == [Content |-> << >>, Error |-> << >>]
ErrorResult(msg, what) == [Content |-> << >>, Error |-> << msg, what >>]

\* client.CallTool(toolName, args) on the client of server `clientName`
CallToolResults(clientName, toolCall) ==
  { [Content |-> << clientName, toolCall.Name, toolCall.Arguments >>, Error |-> << >>],
    ErrorResult("call failed", toolCall.Name) }

\* ExecuteTool, lines 389-401: the routing and client lookup under the read
\* lock; NoOne when the lookup fails
LookupClient(toolName) ==
  IF toolName \in DOMAIN toolRouting /\ toolRouting[toolName] \in clients
  THEN toolRouting[toolName] ELSE NoOne

\* ExecuteTool, lines 391-400: the result of a failed lookup
LookupError(toolName) ==
  IF toolName \notin DOMAIN toolRouting THEN ErrorResult("tool not found", toolName)
  ELSE ErrorResult("MCP client not found", toolRouting[toolName])

\* everything ExecuteTool(toolCall) can return in the current state
ExecuteToolResults(toolCall) ==
  IF LookupClient(toolCall.Name) = NoOne THEN { LookupError(toolCall.Name) }
  ELSE CallToolResults(LookupClient(toolCall.Name), toolCall)

\* the calls handed to ExecuteTool: a tool of the servers and the meta-tool
ToolCalls == { Call(RF, NoArgs), Call(MCPDiscoverName, NoArgs) }

\* ExecuteTool, lines 386-401: the lookup under the read lock; a failed
\* lookup returns at once
ExecuteTool(g, toolCall) ==
  /\ pc[g] = "idle"
  /\ CanRLock
  /\ IF LookupClient(toolCall.Name) = NoOne
     THEN Done(g, [NoRet EXCEPT !.op = "ExecuteTool", !.calls = << toolCall >>,
                                !.results = << LookupError(toolCall.Name) >>])
     ELSE Goto(g, "ET_io", [NoFrame EXCEPT !.op = "ExecuteTool",
                                           !.calls = << toolCall >>,
                                           !.name = LookupClient(toolCall.Name)])
  /\ UNCHANGED << maps, limits, transportClient, mu >>

\* ExecuteTool, lines 403-419: client.CallTool outside the lock and the
\* result handed back, whatever it is
ET_io(g) ==
  /\ pc[g] = "ET_io"
  /\ \E r \in CallToolResults(fr[g].name, fr[g].calls[1]) :
       Done(g, [NoRet EXCEPT !.op = "ExecuteTool", !.calls = fr[g].calls,
                             !.name = fr[g].name, !.results = << r >>])
  /\ UNCHANGED << maps, limits, transportClient, mu >>

(***************************************************************************)
(* Specification                                                           *)
(***************************************************************************)

NextFor(P) ==
  \/ \E g \in P, config \in Configs : AddServerLazy(g, config)
  \/ \E g \in P, name \in Servers : EnsureConnected(g, name)
  \/ \E g \in P : EC_Lock(g)
  \/ \E g \in P : EC_Connect(g)
  \/ \E g \in P, name \in Servers : GetToolsFromServer(g, name)
  \/ \E g \in P : GT_RLock(g)
  \/ \E g \in P : GT_Reread(g)
  \/ \E g \in P : GT_List(g)
  \/ \E g \in P, config \in Configs : AddServer(g, config)
  \/ \E g \in P : AS_Lock(g)
  \/ \E g \in P : AS_Connect(g)
  \/ \E g \in P, pattern \in Patterns : HandleDiscovery(g, pattern)
  \/ \E g \in P : ST_Iter(g)
  \/ \E g \in P : ST_Relock(g)
  \/ \E g \in P : HD_Filter(g)
  \/ \E g \in P : HD_Add(g)
  \/ \E g \in P, name \in Servers : RemoveServer(g, name)
  \/ \E g \in P : RS_Close(g)
  \/ \E g \in P : Close(g)
  \/ \E g \in P : CL_Close(g)
  \/ \E g \in P : GetAllTools(g)
  \/ \E g \in P : GA_List(g)
  \/ \E g \in P : GetActiveTools(g)
  \/ \E g \in P, tools \in DiscoveredInputs, name \in Servers :
       AddDiscoveredTools(g, tools, name)
  \/ \E g \in P, toolCall \in ToolCalls : ExecuteTool(g, toolCall)
  \/ \E g \in P : ET_io(g)

Next == NextFor(Procs)

\* one caller at a time
Spec == Init /\ [][Next]_vars

(***************************************************************************)
(* Execution planner (mcp.go AnalyzeExecutionPlan)                         *)
(***************************************************************************)

\* the longest batch handed to the planner
MaxBatch == 3

WriteFile == <<"w", "r", "i", "t", "e", "_", "f", "i", "l", "e">>
ReadFile == <<"r", "e", "a", "d", "_", "f", "i", "l", "e">>
ListDirectory == <<"l", "i", "s", "t", "_", "d", "i", "r", "e", "c", "t", "o", "r", "y">>
Step1 == <<"s", "t", "e", "p", "1">>
Step2 == <<"s", "t", "e", "p", "2">>

\* the calls batches are made of
PlanCalls ==
  { Call(WriteFile, PathArg(Str("/a"))),
    Call(ReadFile, PathArg(Str("/a"))),
    Call(ReadFile, PathArg(Str("/b"))),
    Call(ListDirectory, PathArg(Str("/a"))),
    Call(Step1, NoArgs),
    Call(Step2, FileArg(Str("/a"))) }

RECURSIVE SeqsUpTo(_, _)
SeqsUpTo(S, n) ==
  IF n = 0 THEN { << >> }
  ELSE LET shorter == SeqsUpTo(S, n - 1)
       IN  shorter \cup { Append(q, x) : q \in shorter, x \in S }

Batches == SeqsUpTo(PlanCalls, MaxBatch)

ContainsAny(name, words) == \E w \in words : Contains(name, w)

WriteWords == { <<"w", "r", "i", "t", "e">>, <<"c", "r", "e", "a", "t", "e">>, <<"e", "d", "i", "t">>, <<"a", "p", "p", "e", "n", "d">> }
ReadWords == { <<"r", "e", "a", "d">>, <<"l", "i", "s", "t">>, <<"g", "e", "t">> }

IsWriteCall(name) == ContainsAny(name, WriteWords)
IsReadCall(name) == ContainsAny(name, ReadWords)

\* lines 447-455 and 463-471: the operand of a call, << >> when it has none
Operand(args) ==
  IF "path" \in DOMAIN args
  THEN IF args["path"].type = "string" THEN << args["path"].val >> ELSE << >>
  ELSE IF "file" \in DOMAIN args
       THEN IF args["file"].type = "string" THEN << args["file"].val >> ELSE << >>
       ELSE << >>

\* fileTargets[path] = append(fileTargets[path], i)
AddTarget(targets, operand, i) ==
  IF operand = << >> THEN targets
  ELSE LET k == operand[1]
       IN  MapPut(targets, k, IF k \in DOMAIN targets THEN Append(targets[k], i) ELSE << i >>)

\* lines 437-473: fileTargets after the calls from position i on (indices from 0)
RECURSIVE FileTargets(_, _, _)
FileTargets(toolCalls, i, targets) ==
  IF i > Len(toolCalls) THEN targets
  ELSE LET c == toolCalls[i]
           t1 == IF IsWriteCall(c.Name) THEN AddTarget(targets, Operand(c.Arguments), i - 1)
                 ELSE targets
           t2 == IF IsReadCall(c.Name) THEN AddTarget(t1, Operand(c.Arguments), i - 1)
                 ELSE t1
       IN  FileTargets(toolCalls, i + 1, t2)

\* lines 500-504: the pairs of names that suggest an order
OrderingPattern(curr, next) ==
  \/ Contains(curr, <<"c", "r", "e", "a", "t", "e">>) /\ Contains(next, <<"r", "e", "a", "d">>)
  \/ Contains(curr, <<"w", "r", "i", "t", "e">>) /\ Contains(next, <<"r", "e", "a", "d">>)
  \/ Contains(curr, <<"1">>) /\ Contains(next, <<"2">>)
  \/ Contains(curr, <<"f", "i", "r", "s", "t">>) /\ Contains(next, <<"s", "e", "c", "o", "n", "d">>)
  \/ Contains(curr, <<"i", "n", "i", "t">>) /\ Contains(next, <<"u", "s", "e">>)

\* the operands with more than one entry in fileTargets
Conflicts(toolCalls) ==
  LET targets == FileTargets(toolCalls, 1, EmptyMap)
  IN  { k \in DOMAIN targets : Len(targets[k]) > 1 }

\* lines 424-430: the plan for at most one call
SinglePlan(toolCalls) ==
  [ RequiresSequential |-> FALSE, Groups |-> << << 0 >> >>, Reason |-> << "Single tool call" >> ]

\* lines 511-525
BuildGroups(toolCalls, requiresSequential) ==
  IF requiresSequential
  THEN [i \in 1..Len(toolCalls) |-> << i - 1 >>]
  ELSE << [i \in 1..Len(toolCalls) |-> i - 1] >>

\* AnalyzeExecutionPlan; `file` is the conflicting operand the range over
\* fileTargets meets first (any member of Conflicts, "" when there is none)
AnalyzeExecutionPlan(toolCalls, file) ==
  IF Len(toolCalls) <= 1 THEN SinglePlan(toolCalls)
  ELSE LET hasWriteOperations == \E i \in 1..Len(toolCalls) : IsWriteCall(toolCalls[i].Name)
           hasReadOperations == \E i \in 1..Len(toolCalls) : IsReadCall(toolCalls[i].Name)
           mixed == hasWriteOperations /\ hasReadOperations
           sameFile == Conflicts(toolCalls) # {}
           ordered == \E i \in 1..(Len(toolCalls) - 1) :
                        OrderingPattern(toolCalls[i].Name, toolCalls[i + 1].Name)
           requiresSequential == mixed \/ sameFile \/ ordered
           reason == IF ordered THEN << "Tool names suggest sequential dependency" >>
                     ELSE IF sameFile THEN << "Multiple operations on the same file: ", file >>
                     ELSE IF mixed THEN << "Mixed read and write operations detected" >>
                     ELSE << "Can execute in parallel" >>
       IN  [ RequiresSequential |-> requiresSequential,
             Groups |-> BuildGroups(toolCalls, requiresSequential),
             Reason |-> reason ]

FirstConflicts(toolCalls) ==
  IF Len(toolCalls) <= 1 \/ Conflicts(toolCalls) = {} THEN {""} ELSE Conflicts(toolCalls)

\* a goroutine about to call AnalyzeExecutionPlan with a batch
PlanInit ==
  /\ NewMCPManager(MaxClientsArg, 0)
  /\ mu = Free
  /\ transportClient = NoClient
  /\ pc = [g \in Procs |-> "AP_call"]
  /\ fr \in [Procs -> { [Frame("AnalyzeExecutionPlan") EXCEPT !.calls = b] : b \in Batches }]
  /\ ret = [g \in Procs |-> NoRet]

Analyze(g) ==
  /\ pc[g] = "AP_call"
  /\ \E file \in FirstConflicts(fr[g].calls) :
       Done(g, [NoRet EXCEPT !.op = "AnalyzeExecutionPlan", !.calls = fr[g].calls,
                             !.plan = AnalyzeExecutionPlan(fr[g].calls, file)])
  /\ UNCHANGED << maps, limits, transportClient, mu >>

PlanNext == \E g \in Procs : Analyze(g)

\* the planner applied to every batch of at most MaxBatch calls
SpecPlan == PlanInit /\ [][PlanNext]_vars

(***************************************************************************)
(* Dispatcher (mcp.go ExecuteTool, ExecuteWithPlan)                        *)
(***************************************************************************)

\* the manager the dispatcher runs on: fs connected, wf and gs added for git
\* by AddDiscoveredTools, git not connected
ExecRouting ==
  RouteAll(RouteAll(EmptyMap, ServerCatalog("fs"), "fs"), << Tool(WF, "fs"), Tool(GS, "git") >>, "git")

\* calls whose tool is served, is routed to a server without client, and is unknown
ExecCalls ==
  { Call(RF, PathArg(Str("/a"))), Call(GS, NoArgs), Call(Step1, NoArgs) }

ExecBatches == SeqsUpTo(ExecCalls, MaxBatch)

\* indices a..b (from 0) in order
Indices(a, b) == [i \in 1..(b - a + 1) |-> a + i - 1]

CallerPlan(groups) ==
  [ RequiresSequential |-> TRUE, Groups |-> groups, Reason |-> << "caller" >> ]

\* the plans of the planner for a batch
PlannerPlans(toolCalls) ==
  { AnalyzeExecutionPlan(toolCalls, file) : file \in FirstConflicts(toolCalls) }

\* the plans handed to ExecuteWithPlan with a batch: the planner's, one group
\* per call, and every split of the batch into two consecutive groups
ExecPlans(toolCalls) ==
  PlannerPlans(toolCalls)
    \cup (IF Len(toolCalls) = 0 THEN {}
          ELSE { CallerPlan([i \in 1..Len(toolCalls) |-> << i - 1 >>]) })
    \cup { CallerPlan(<< Indices(0, k - 1), Indices(k, Len(toolCalls) - 1) >>) :
             k \in 1..(Len(toolCalls) - 1) }

TaskIds == 0..MaxBatch

\* a task is one ExecuteTool(toolCalls[i]): new, run (called), call (inside
\* client.CallTool), done (its result is stored)
NewTask == [pc |-> "new", client |-> NoOne, res |-> ZeroResult]

\* ExecuteWithPlan, line 543: results := make([]ToolResult, len(toolCalls))
ExecFrame(toolCalls, plan) ==
  [ op |-> "ExecuteWithPlan", calls |-> toolCalls, plan |-> plan, k |-> 1,
    results |-> [i \in 1..Len(toolCalls) |-> ZeroResult],
    tasks |-> [i \in 0..(Len(toolCalls) - 1) |-> NewTask] ]

ExecInit ==
  /\ clients = {"fs"}
  /\ toolRouting = ExecRouting
  /\ pendingConfigs = EmptyMap
  /\ discoveredTools = PutTools(EmptyMap, << Tool(WF, "fs"), Tool(GS, "git") >>)
  /\ allToolsCache = EmptyMap
  /\ maxClients = MaxClientsArg
  /\ maxToolsPerDiscovery = DefaultMaxToolsPerDiscovery
  /\ mu = Free
  /\ transportClient = NoClient
  /\ pc = [g \in Procs |-> "EW_loop"]
  /\ fr \in [Procs -> UNION { { ExecFrame(b, p) : p \in ExecPlans(b) } : b \in ExecBatches }]
  /\ ret = [g \in Procs |-> NoRet]

EW_Ret(f, err) ==
  [NoRet EXCEPT !.op = "ExecuteWithPlan", !.err = err, !.calls = f.calls,
                !.plan = f.plan, !.results = f.results, !.tasks = f.tasks]

\* the tasks of a group are called
StartTasks(tasks, group) ==
  [i \in DOMAIN tasks |->
     IF i \in Range(group) THEN [tasks[i] EXCEPT !.pc = "run"] ELSE tasks[i]]

\* a dispatcher that does not wait for the group
GroupNotAwaited(tasks, group) == TRUE

\* ExecuteWithPlan, lines 549 and 560: the direct call has returned, wg.Wait()
GroupDone(tasks, group) ==
  \A i \in Range(group) : tasks[i].pc = "done"

\* ExecuteWithPlan, lines 545-559 and 564: the next group is started, or the
\* results are returned; toolCalls[idx] with idx outside the batch panics
EW_Group(g) ==
  /\ pc[g] = "EW_loop"
  /\ LET f == fr[g]
     IN  IF f.k > Len(f.plan.Groups)
         THEN Done(g, EW_Ret(f, ""))
         ELSE LET group == f.plan.Groups[f.k]
              IN  IF Len(group) = 1 /\ group[1] \notin DOMAIN f.tasks
                  THEN Done(g, EW_Ret(f, "panic: index out of range"))
                  ELSE Goto(g, "EW_wait", [f EXCEPT !.tasks = StartTasks(@, group)])
  /\ UNCHANGED << maps, limits, transportClient, mu >>

\* ExecuteTool, lines 387-401, for task i; a failed lookup returns at once
\* and the result goes to results[i]
ET_Lookup(g, i) ==
  /\ pc[g] = "EW_wait"
  /\ i \in DOMAIN fr[g].tasks
  /\ fr[g].tasks[i].pc = "run"
  /\ CanRLock
  /\ LET f == fr[g]
         toolCall == f.calls[i + 1]
         client == LookupClient(toolCall.Name)
     IN  IF client = NoOne
         THEN Goto(g, "EW_wait",
                   [f EXCEPT !.tasks[i] = [pc |-> "done", client |-> NoOne,
                                           res |-> LookupError(toolCall.Name)],
                             !.results[i + 1] = LookupError(toolCall.Name)])
         ELSE Goto(g, "EW_wait", [f EXCEPT !.tasks[i].pc = "call", !.tasks[i].client = client])
  /\ UNCHANGED << maps, limits, transportClient, mu >>

\* ExecuteTool, lines 410-419, and the store results[i] = ... (lines 549, 557)
ET_Call(g, i) ==
  /\ pc[g] = "EW_wait"
  /\ i \in DOMAIN fr[g].tasks
  /\ fr[g].tasks[i].pc = "call"
  /\ LET f == fr[g]
     IN  \E r \in CallToolResults(f.tasks[i].client, f.calls[i + 1]) :
           Goto(g, "EW_wait",
                [f EXCEPT !.tasks[i].pc = "done", !.tasks[i].res = r, !.results[i + 1] = r])
  /\ UNCHANGED << maps, limits, transportClient, mu >>

\* ExecuteWithPlan, lines 549 and 560: the group is over, on to the next
EW_Wait(g) ==
  /\ pc[g] = "EW_wait"
  /\ GroupDone(fr[g].tasks, fr[g].plan.Groups[fr[g].k])
  /\ Goto(g, "EW_loop", [fr[g] EXCEPT !.k = @ + 1])
  /\ UNCHANGED << maps, limits, transportClient, mu >>

ExecNext ==
  \/ \E g \in Procs : EW_Group(g)
  \/ \E g \in Procs, i \in TaskIds : ET_Lookup(g, i)
  \/ \E g \in Procs, i \in TaskIds : ET_Call(g, i)
  \/ \E g \in Procs : EW_Wait(g)

\* ExecuteWithPlan on every batch of at most MaxBatch calls, with the
\* planner's plan and with plans of the caller
SpecExec == ExecInit /\ [][ExecNext]_vars

(***************************************************************************)
(* Transport clients (MCPHTTPClient, MCPWebSocketClient)                   *)
(***************************************************************************)

\* the goroutines that share one transport client
ClientProcs == {"g1", "g2"}

\* c.name, and the raw tool names the remote server lists: one of them
\* begins with the client's name and a colon
ClientName == <<"g">>
RawTools == << <<"s">>, <<"g", ":", "s">> >>

\* the names handed to CallTool
CallNames == { <<"s">>, <<"g", ":", "s">>, <<"g", ":", "g", ":", "s">> }

\* the mcp-session-id header of the initialize response, "" when absent
SessionIds == {"", "s1"}

NewMCPHTTPClient(name) == [NoClient EXCEPT !.kind = "http", !.name = name]
NewMCPWebSocketClient(name) == [NoClient EXCEPT !.kind = "websocket", !.name = name]

\* an outbound JSON-RPC message: method, params.name of tools/call, and the
\* mcp-session-id request header ("" when the header is not set)
Request(method, name, session) == [method |-> method, name |-> name, session |-> session]

\* strings.TrimPrefix
TrimPrefix(s, prefix) == IF HasPrefix(s, prefix) THEN Drop(s, Len(prefix)) ELSE s

\* the name CallTool puts in the tools/call request: the HTTP client strips
\* c.name + ":" (lines 194-198), the WebSocket client sends the name as it
\* is (line 692)
ActualName(client, name) ==
  IF client.kind = "http"
  THEN IF HasPrefix(name, client.name \o <<":">>)
       THEN TrimPrefix(name, client.name \o <<":">>)
       ELSE name
  ELSE name

\* the names ListTools returns: the HTTP client prefixes c.name + ":" (line
\* 141), the WebSocket client returns the server's names (line 638)
ListedTools(client) ==
  [i \in 1..Len(RawTools) |->
     Tool(IF client.kind = "http" THEN client.name \o <<":">> \o RawTools[i]
          ELSE RawTools[i], "remote")]

\* the mcp-session-id header callWithContext sets: the HTTP client sets it
\* when c.sessionID is not empty (lines 346-350), a WebSocket frame has none
SessionHeader(client) == IF client.kind = "http" THEN client.sessionID ELSE ""

\* the mcp-session-id header notify sets: none (lines 446-476, 802-809)
NotifyHeader(client) == ""

\* the most requests with an id that the callers of one client issue
MaxCalls == 2

\* call(method, ...) of the handshake runs on c.ctx, which has no deadline;
\* CallTool runs tools/call on a context with a 60 s timeout
WSMethods == {"initialize", "tools/call"}
HasDeadline(method) == method = "tools/call"

\* a jsonRPCResponse: its ID
Response(id) == [ID |-> id]

\* callWithContext, lines 773-777: delete(c.responses, id)
DeleteResponse(responses, id) == MapDel(responses, id)

\* handleResponses, lines 878-882: a send that never blocks; the response is
\* dropped when the buffer is full. A channel whose call has returned is
\* read by nobody
Deliver(responses, chan, resp) ==
  IF chan \in DOMAIN responses /\ responses[chan] = << >>
  THEN [responses EXCEPT ![chan] = << resp >>]
  ELSE responses

\* MCPWebSocketClient.Start holds c.mu from its entry to its return, lines
\* 542-577, the dial included; the other sections under c.mu are one step
\* each and wait for it
MuFree == \A g \in DOMAIN pc : pc[g] \notin {"ST_dial", "ST_conn"}

\* the most unread frames on the connection
MaxIncoming == 1

\* the goroutine started by Start of the WebSocket client
Reader == "reader"

\* the locals of handleResponses: the response it has read and the channel
\* it has looked up (the id the channel was registered with, 0 for none)
ReaderFrame == [op |-> "handleResponses", resp |-> Response(0), chan |-> 0]

\* the server writes a response frame: for a request, for an id nobody
\* asked with, or once more for an id it has answered
Respond(id) ==
  /\ transportClient.conn = "open"
  /\ Len(transportClient.incoming) < MaxIncoming
  /\ transportClient' = [transportClient EXCEPT !.incoming = Append(@, Response(id))]
  /\ UNCHANGED << maps, limits, mu, pc, fr, ret >>

\* a reader that takes the channel of the lowest waiting id
LookupFirst(responses, resp) ==
  IF DOMAIN responses = {} THEN 0
  ELSE CHOOSE i \in DOMAIN responses : \A j \in DOMAIN responses : i <= j

\* handleResponses, lines 873-875: respChan, ok := c.responses[*resp.ID]
Lookup(responses, resp) == IF resp.ID \in DOMAIN responses THEN resp.ID ELSE 0

\* handleResponses, lines 841-845: the test of c.ctx.Done()
HR_Loop(r) ==
  /\ pc[r] = "HR_loop"
  /\ pc' = [pc EXCEPT ![r] = IF transportClient.cancelled THEN "HR_exit" ELSE "HR_conn"]
  /\ fr' = [fr EXCEPT ![r] = ReaderFrame]
  /\ UNCHANGED << maps, limits, mu, ret, transportClient >>

\* handleResponses, lines 847-853: conn := c.conn under connMu
HR_Conn(r) ==
  /\ pc[r] = "HR_conn"
  /\ pc' = [pc EXCEPT ![r] = IF transportClient.conn = "nil" THEN "HR_exit" ELSE "HR_read"]
  /\ UNCHANGED << maps, limits, mu, fr, ret, transportClient >>

\* handleResponses, lines 855-863: conn.ReadMessage returns a frame, or an
\* error, which ends the goroutine
HR_Read(r) ==
  /\ pc[r] = "HR_read"
  /\ \/ /\ transportClient.conn = "open" /\ transportClient.incoming # << >>
        /\ transportClient' = [transportClient EXCEPT !.incoming = Tail(@)]
        /\ fr' = [fr EXCEPT ![r].resp = Head(transportClient.incoming)]
        /\ pc' = [pc EXCEPT ![r] = "HR_lookup"]
     \/ /\ pc' = [pc EXCEPT ![r] = "HR_exit"]
        /\ UNCHANGED << fr, transportClient >>
  /\ UNCHANGED << maps, limits, mu, ret >>

\* handleResponses, lines 872-876 and 883-885: the lookup under the read
\* lock; a response to an unknown id is dropped
HR_Lookup(r) ==
  /\ pc[r] = "HR_lookup"
  /\ MuFree
  /\ LET chan == Lookup(transportClient.responses, fr[r].resp)
     IN  /\ fr' = [fr EXCEPT ![r].chan = chan]
         /\ pc' = [pc EXCEPT ![r] = IF chan # 0 THEN "HR_deliver" ELSE "HR_loop"]
  /\ UNCHANGED << maps, limits, mu, ret, transportClient >>

\* handleResponses, lines 877-882: the send, after the lock was released
HR_Deliver(r) ==
  /\ pc[r] = "HR_deliver"
  /\ transportClient' =
       [transportClient EXCEPT !.responses = Deliver(@, fr[r].chan, fr[r].resp)]
  /\ pc' = [pc EXCEPT ![r] = "HR_loop"]
  /\ UNCHANGED << maps, limits, mu, fr, ret >>

\* the locals of a client method: the requests it has built, the id of its
\* call, the name CallTool was given, the error of the call, and c.sessionID
\* as it was when the last request was written ("" when that request was
\* not written)
ClientFrame(op) ==
  [op |-> op, requests |-> << >>, id |-> 0, tool |-> << >>, err |-> "", captured |-> ""]

\* the client after its constructor: the WebSocket client has no connection
\* and no reader goroutine before Start, the HTTP client never has them
ClientInit ==
  /\ NewMCPManager(MaxClientsArg, 0)
  /\ mu = Free
  /\ transportClient \in { NewMCPHTTPClient(ClientName), NewMCPWebSocketClient(ClientName) }
  /\ pc = [g \in ClientProcs \cup {Reader} |->
             IF g # Reader THEN "idle" ELSE "no_reader"]
  /\ fr = [g \in ClientProcs \cup {Reader} |-> IF g = Reader THEN ReaderFrame ELSE NoFrame]
  /\ ret = [g \in ClientProcs \cup {Reader} |-> NoRet]

\* what a client method returns when its call has failed
CallError(op) == IF op = "Initialize" THEN "initialize_failed" ELSE "call_failed"

\* a client method returns
ClientReturn(g, f, err, tools) ==
  Done(g, [NoRet EXCEPT !.op = f.op, !.err = err, !.tool = f.tool, !.tools = tools,
                        !.requests = f.requests, !.captured = f.captured, !.id = f.id])

\* callWithContext, line 323 and line 758: id := atomic.AddInt64(&c.requestID,
\* 1) and the request. The HTTP client goes on to read c.sessionID, the
\* WebSocket client to register its channel
StartCall(g, f, method, name) ==
  /\ transportClient.requestID < MaxCalls
  /\ transportClient' = [transportClient EXCEPT !.requestID = @ + 1]
  /\ Goto(g, IF transportClient.kind = "http" THEN "RQ_header" ELSE "RQ_register",
          [f EXCEPT !.id = transportClient.requestID + 1,
                    !.requests = << Request(method, name, "") >>])

\* MCPHTTPClient.Start, lines 69-72: nothing but a log line.
\* MCPWebSocketClient.Start, lines 542-547: c.mu is taken and a client with
\* a connection refuses
Start(g) ==
  /\ pc[g] = "idle"
  /\ MuFree
  /\ IF transportClient.kind = "http" THEN Done(g, [NoRet EXCEPT !.op = "Start"])
     ELSE IF transportClient.conn # "nil"
     THEN Done(g, [NoRet EXCEPT !.op = "Start", !.err = "already started"])
     ELSE Goto(g, "ST_dial", [op |-> "Start"])
  /\ UNCHANGED << maps, limits, mu, transportClient >>

\* Start, lines 563-569: dialer.DialContext(c.ctx, ...) connects, or fails,
\* as it does on a cancelled c.ctx
ST_Dial(g) ==
  /\ pc[g] = "ST_dial"
  /\ \/ /\ ~ transportClient.cancelled
        /\ Goto(g, "ST_conn", fr[g])
     \/ Done(g, [NoRet EXCEPT !.op = "Start", !.err = "failed to connect"])
  /\ UNCHANGED << maps, limits, mu, transportClient >>

\* Start, lines 571-577: c.conn = conn, go c.handleResponses(), return nil
ST_Conn(g) ==
  /\ pc[g] = "ST_conn"
  /\ transportClient' = [transportClient EXCEPT !.conn = "open"]
  /\ pc' = [pc EXCEPT ![g] = "idle", ![Reader] = "HR_loop"]
  /\ fr' = [fr EXCEPT ![g] = NoFrame, ![Reader] = ReaderFrame]
  /\ ret' = [ret EXCEPT ![g] = [NoRet EXCEPT !.op = "Start"]]
  /\ UNCHANGED << maps, limits, mu >>

\* Initialize, lines 76-81 and 582-587: the test of c.initialized under the
\* read lock, which is released before anything is sent
Initialize(g) ==
  /\ pc[g] = "idle"
  /\ MuFree
  /\ IF transportClient.initialized
     THEN Done(g, [NoRet EXCEPT !.op = "Initialize"])
     ELSE Goto(g, "IN_call", ClientFrame("Initialize"))
  /\ UNCHANGED << maps, limits, mu, transportClient >>

\* callWithSessionCapture, lines 254-277: the request id is taken and the
\* initialize request is built, without an mcp-session-id header;
\* callWithContext of the WebSocket client, lines 758-765
IN_Call(g) ==
  /\ pc[g] = "IN_call"
  /\ transportClient.requestID < MaxCalls
  /\ transportClient' = [transportClient EXCEPT !.requestID = @ + 1]
  /\ Goto(g, IF transportClient.kind = "http" THEN "RQ_send" ELSE "RQ_register",
          [fr[g] EXCEPT !.id = transportClient.requestID + 1,
                        !.requests = << Request("initialize", << >>, "") >>])
  /\ UNCHANGED << maps, limits, mu >>

\* ListTools, lines 130-133 and 627-631, up to the request id
ListTools(g) ==
  /\ pc[g] = "idle"
  /\ StartCall(g, ClientFrame("ListTools"), "tools/list", << >>)
  /\ UNCHANGED << maps, limits, mu >>

\* CallTool, lines 188-216 and 684-698, up to the request id
CallTool(g, name) ==
  /\ pc[g] = "idle"
  /\ StartCall(g, [ClientFrame("CallTool") EXCEPT !.tool = name], "tools/call",
               ActualName(transportClient, name))
  /\ UNCHANGED << maps, limits, mu >>

\* MCPHTTPClient.callWithContext, lines 345-353: c.sessionID is read under
\* the read lock and set as the mcp-session-id header of the request
RQ_Header(g) ==
  /\ pc[g] = "RQ_header"
  /\ Goto(g, "RQ_send",
          [fr[g] EXCEPT !.requests[Len(fr[g].requests)].session =
                          SessionHeader(transportClient)])
  /\ UNCHANGED << maps, limits, mu, transportClient >>

\* MCPWebSocketClient.callWithContext, lines 767-771: c.responses[id] =
\* respChan, a channel with buffer 1
RQ_Register(g) ==
  /\ pc[g] = "RQ_register"
  /\ MuFree
  /\ transportClient' = [transportClient EXCEPT !.responses = MapPut(@, fr[g].id, << >>)]
  /\ Goto(g, "RQ_send", fr[g])
  /\ UNCHANGED << maps, limits, mu >>

\* c.client.Do, lines 280-283 and 361-364: the request is written, or the
\* call fails with nothing written (no connection to the server, c.ctx
\* cancelled by Close). sendRequest, lines 812-832: c.conn == nil or a
\* WriteMessage error, after which callWithContext returns through its defer
RQ_Send(g) ==
  /\ pc[g] = "RQ_send"
  /\ LET c == transportClient
         req == fr[g].requests[Len(fr[g].requests)]
         failed == [fr[g] EXCEPT !.err = CallError(fr[g].op)]
         CanWrite == IF c.kind = "http" THEN ~ c.cancelled ELSE c.conn = "open"
     IN  \/ /\ CanWrite
            /\ transportClient' = [c EXCEPT !.sent = @ \cup {req.method}]
            /\ Goto(g, "RQ_wait", [fr[g] EXCEPT !.captured = c.sessionID])
         \/ /\ UNCHANGED transportClient
            /\ IF c.kind = "http" THEN ClientReturn(g, failed, failed.err, << >>)
               ELSE Goto(g, "RQ_defer", failed)
  /\ UNCHANGED << maps, limits, mu >>

\* the answer to a written request. callWithSessionCapture, lines 280-290:
\* no answer at all, or the mcp-session-id header of the answer is stored
\* when it is not empty, also when the answer is an error. HTTP
\* callWithContext, lines 361-397. MCPWebSocketClient.callWithContext, lines
\* 785-798: the select on respChan and ctx.Done(), the response an error or
\* not
RQ_Recv(g) ==
  /\ pc[g] = "RQ_wait"
  /\ LET c == transportClient
         f == fr[g]
         failed == [f EXCEPT !.err = CallError(f.op)]
     IN  IF c.kind = "http"
         THEN IF f.op = "Initialize"
              THEN \/ /\ UNCHANGED transportClient
                      /\ ClientReturn(g, failed, failed.err, << >>)
                   \/ \E sid \in SessionIds :
                        /\ transportClient' =
                             [c EXCEPT !.sessionID = IF sid # "" THEN sid ELSE @]
                        /\ Goto(g, "IN_decode", f)
              ELSE /\ UNCHANGED transportClient
                   /\ \/ ClientReturn(g, failed, failed.err, << >>)
                      \/ IF f.op = "ListTools" THEN Goto(g, "LT_store", f)
                         ELSE ClientReturn(g, f, "", << >>)
         ELSE \/ /\ c.responses[f.id] # << >>
                 /\ transportClient' = [c EXCEPT !.responses[f.id] = Tail(@)]
                 /\ \/ Goto(g, "RQ_defer", f)
                    \/ Goto(g, "RQ_defer", failed)
              \/ /\ c.cancelled \/ HasDeadline(f.requests[Len(f.requests)].method)
                 /\ UNCHANGED transportClient
                 /\ Goto(g, "RQ_defer", failed)
  /\ UNCHANGED << maps, limits, mu >>

\* MCPWebSocketClient.callWithContext returns and its deferred function
\* runs, lines 773-777; then Initialize (lines 610-617), ListTools (lines
\* 633-635) or CallTool (lines 697-699) goes on or returns the error
RQ_Defer(g) ==
  /\ pc[g] = "RQ_defer"
  /\ MuFree
  /\ transportClient' =
       [transportClient EXCEPT !.responses = DeleteResponse(@, fr[g].id)]
  /\ IF fr[g].err # "" THEN ClientReturn(g, fr[g], fr[g].err, << >>)
     ELSE IF fr[g].op = "Initialize" THEN Goto(g, "IN_notify", fr[g])
     ELSE IF fr[g].op = "ListTools" THEN Goto(g, "LT_store", fr[g])
     ELSE ClientReturn(g, fr[g], "", << >>)
  /\ UNCHANGED << maps, limits, mu >>

\* ListTools, lines 136-184 and 637-680: the tools converted and stored in
\* c.tools under the lock
LT_Store(g) ==
  /\ pc[g] = "LT_store"
  /\ MuFree
  /\ transportClient' = [transportClient EXCEPT !.tools = ListedTools(transportClient)]
  /\ ClientReturn(g, fr[g], "", ListedTools(transportClient))
  /\ UNCHANGED << maps, limits, mu >>

\* MCPHTTPClient: callWithSessionCapture, lines 292-319, the status and the
\* body of the answer, and Initialize, lines 110-113: c.initialized = true
\* before the notification
IN_Decode(g) ==
  /\ pc[g] = "IN_decode"
  /\ \/ /\ transportClient' = [transportClient EXCEPT !.initialized = TRUE]
        /\ Goto(g, "IN_notify", fr[g])
     \/ /\ UNCHANGED transportClient
        /\ ClientReturn(g, fr[g], CallError(fr[g].op), << >>)
  /\ UNCHANGED << maps, limits, mu >>

\* Initialize, lines 115-118 and 615-617: the notifications/initialized
\* notification is written or not (never on a cancelled c.ctx, lines
\* 459-468, nor with c.conn == nil, lines 816-818); a failure is only
\* logged. The HTTP client that has written waits in c.client.Do for the
\* answer, the one that has not returns; the WebSocket client goes on to set
\* c.initialized
IN_Notify(g) ==
  /\ pc[g] = "IN_notify"
  /\ LET c == transportClient
         req == Request("notifications/initialized", << >>, NotifyHeader(c))
         CanWrite == IF c.kind = "http" THEN ~ c.cancelled ELSE c.conn = "open"
     IN  \E written \in {w \in BOOLEAN : w => CanWrite} :
           LET f == [fr[g] EXCEPT !.requests = Append(@, req),
                                  !.captured = IF written THEN c.sessionID ELSE ""]
           IN  /\ transportClient' =
                    IF written THEN [c EXCEPT !.sent = @ \cup {req.method}] ELSE c
               /\ IF c.kind = "websocket" THEN Goto(g, "IN_mark", f)
                  ELSE IF written THEN Goto(g, "NT_wait", f)
                  ELSE ClientReturn(g, f, "", << >>)
  /\ UNCHANGED << maps, limits, mu >>

\* MCPHTTPClient.notify, lines 468-475: c.client.Do returns, with the answer
\* or with an error, which Initialize only logs (lines 116-118), and
\* Initialize returns nil
NT_Recv(g) ==
  /\ pc[g] = "NT_wait"
  /\ ClientReturn(g, fr[g], "", << >>)
  /\ UNCHANGED << maps, limits, mu, transportClient >>

\* MCPWebSocketClient.Initialize, lines 619-623: c.initialized = true
IN_Mark(g) ==
  /\ pc[g] = "IN_mark"
  /\ MuFree
  /\ transportClient' = [transportClient EXCEPT !.initialized = TRUE]
  /\ ClientReturn(g, fr[g], "", << >>)
  /\ UNCHANGED << maps, limits, mu >>

\* Close, line 735: c.cancel()
WS_Close(g) ==
  /\ pc[g] = "idle"
  /\ transportClient' = [transportClient EXCEPT !.cancelled = TRUE]
  /\ Goto(g, "CLS_conn", [op |-> "Close"])
  /\ UNCHANGED << maps, limits, mu >>

\* Close, lines 737-749, under connMu: the connection, when there is one,
\* is closed and set to nil; then close(c.done), which panics when an
\* earlier Close has closed it
CLS_Conn(g) ==
  /\ pc[g] = "CLS_conn"
  /\ transportClient' = [transportClient EXCEPT !.conn = "nil", !.incoming = << >>,
                                                !.done = "closed"]
  /\ Done(g, [NoRet EXCEPT !.op = "Close",
                           !.err = IF transportClient.done = "closed"
                                   THEN "panic: close of closed channel" ELSE ""])
  /\ UNCHANGED << maps, limits, mu >>

\* MCPHTTPClient.Close, lines 240-245: c.cancel() and
\* c.client.CloseIdleConnections()
HTTP_Close(g) ==
  /\ pc[g] = "idle"
  /\ transportClient' = [transportClient EXCEPT !.cancelled = TRUE]
  /\ Done(g, [NoRet EXCEPT !.op = "Close"])
  /\ UNCHANGED << maps, limits, mu >>

\* Close of the client at hand
CloseClient(g) ==
  IF transportClient.kind = "http" THEN HTTP_Close(g) ELSE WS_Close(g)

ClientNext ==
  \/ \E g \in ClientProcs : Start(g)
  \/ \E g \in ClientProcs : ST_Dial(g)
  \/ \E g \in ClientProcs : ST_Conn(g)
  \/ \E g \in ClientProcs : Initialize(g)
  \/ \E g \in ClientProcs : IN_Call(g)
  \/ \E g \in ClientProcs : IN_Decode(g)
  \/ \E g \in ClientProcs : IN_Notify(g)
  \/ \E g \in ClientProcs : NT_Recv(g)
  \/ \E g \in ClientProcs : IN_Mark(g)
  \/ \E g \in ClientProcs : ListTools(g)
  \/ \E g \in ClientProcs, name \in CallNames : CallTool(g, name)
  \/ \E g \in ClientProcs : RQ_Header(g)
  \/ \E g \in ClientProcs : RQ_Register(g)
  \/ \E g \in ClientProcs : RQ_Send(g)
  \/ \E id \in 1..MaxCalls : Respond(id)
  \/ \E r \in {Reader} : HR_Loop(r)
  \/ \E r \in {Reader} : HR_Conn(r)
  \/ \E r \in {Reader} : HR_Read(r)
  \/ \E r \in {Reader} : HR_Lookup(r)
  \/ \E r \in {Reader} : HR_Deliver(r)
  \/ \E g \in ClientProcs : RQ_Recv(g)
  \/ \E g \in ClientProcs : RQ_Defer(g)
  \/ \E g \in ClientProcs : LT_Store(g)
  \/ \E g \in ClientProcs : CloseClient(g)
  \/ \E g \in ClientProcs : CLS_Conn(g)

\* two goroutines calling one HTTP client, or one WebSocket client with its
\* reader goroutine and its server
SpecClient == ClientInit /\ [][ClientNext]_vars

(***************************************************************************)
(* Pattern matcher (mcp_jit.go MatchToolPattern)                           *)
(***************************************************************************)

\* the longest pattern and the longest tool name handed to the matcher
MaxPatternLen == 3
MaxNameLen == 4

PatternAlphabet == {"f", "F", "*"}
NameAlphabet == {"f", "F", "*", "/"}

\* the strings of at most n characters
Strs(alphabet, n) == UNION { [1..k -> alphabet] : k \in 0..n }

\* ("*file*", "filesystem:list_directory"), ("GIT:STATUS", "git:status"),
\* ("git:*", "filesystem:read_file")
FileInList == << <<"*", "f", "i", "l", "e", "*">>,
                 <<"f", "i", "l", "e", "s", "y", "s", "t", "e", "m", ":", "l", "i", "s", "t", "_", "d", "i", "r", "e", "c", "t", "o", "r", "y">> >>
GitUpper == << <<"G", "I", "T", ":", "S", "T", "A", "T", "U", "S">>,
               <<"g", "i", "t", ":", "s", "t", "a", "t", "u", "s">> >>
GitInFile == << <<"g", "i", "t", ":", "*">>,
                <<"f", "i", "l", "e", "s", "y", "s", "t", "e", "m", ":", "r", "e", "a", "d", "_", "f", "i", "l", "e">> >>
\* ("file[0-9]", "file1"), the pattern the comment at the glob step names
FileDigit == << <<"f", "i", "l", "e", "[", "0", "-", "9", "]">>, <<"f", "i", "l", "e", "1">> >>
MatchExamples == { FileInList, GitUpper, GitInFile, FileDigit }

\* patterns with character classes and escapes, well-formed or not, and the
\* names they are matched against
ClassAlphabet == {"f", "[", "]", "\\", "*"}
ClassNames == { << >>, <<"f">>, <<"]">>, <<"f", "f">>, <<"f", "]">>, <<"\\", "f">> }

MatchInputs ==
  (Strs(PatternAlphabet, MaxPatternLen) \X Strs(NameAlphabet, MaxNameLen))
    \cup (Strs(ClassAlphabet, MaxPatternLen) \X ClassNames)
    \cup MatchExamples

MatchFrame(pattern, toolName) ==
  [op |-> "MatchToolPattern", pattern |-> pattern, toolName |-> toolName]

MatchInit ==
  /\ NewMCPManager(MaxClientsArg, 0)
  /\ mu = Free
  /\ transportClient = NoClient
  /\ pc = [g \in Procs |-> "MP_call"]
  /\ fr \in [Procs -> { MatchFrame(i[1], i[2]) : i \in MatchInputs }]
  /\ ret = [g \in Procs |-> NoRet]

Match(g) ==
  /\ pc[g] = "MP_call"
  /\ Done(g, [NoRet EXCEPT !.op = "MatchToolPattern", !.pattern = fr[g].pattern,
                           !.tool = fr[g].toolName,
                           !.matched = MatchToolPattern(fr[g].pattern, fr[g].toolName)])
  /\ UNCHANGED << maps, limits, transportClient, mu >>

MatchNext == \E g \in Procs : Match(g)

\* MatchToolPattern on every pattern and name up to the length bounds
SpecMatch == MatchInit /\ [][MatchNext]_vars

(***************************************************************************)
(* Admission of several descriptors with one name                          *)
(***************************************************************************)

\* descriptors offered to AddServerLazy: two accepted ones with the name fs
\* that differ in the command, an accepted git one and a refused one
AdmitConfigs ==
  { Config("fs", "npx"), Config("fs", "node"), ConfigT("git", "npx", "http"),
    Config("fs", "bash"), Config("", "npx"), Config("fs", ""),
    Config("a/b", "npx"), Config("a:b", "npx"), Config(LongName, "npx"),
    Config("fs", "../npx"),
    ConfigA("fs", "npx", "", <<"-y">>, {"PATH"}),
    ConfigA("fs", "npx", "", <<"-y", "../x">>, {}),
    ConfigA("fs", "npx", "", <<"/data;rm">>, {}),
    ConfigA("fs", "npx", "", <<LongDashArg>>, {}),
    ConfigA("fs", "npx", "", << >>, {"PATH", "A;B"}),
    ConfigA("fs", "npx", "", <<"$(x)">>, {}),
    ConfigA("fs", "npx", "", <<"-y", BackquoteArg>>, {}),
    ConfigA("fs", "npx", "", <<"a\nb">>, {}),
    ConfigA("fs", "npx", "", << >>, {"A{B}"}) }

AdmitNext ==
  \/ \E g \in Procs, config \in AdmitConfigs : AddServerLazy(g, config)
  \/ \E g \in Procs, config \in AdmitConfigs : AddServer(g, config)
  \/ \E g \in Procs : AS_Connect(g)
  \/ \E g \in Procs, name \in Servers : EnsureConnected(g, name)
  \/ \E g \in Procs : EC_Connect(g)
  \/ \E g \in Procs, name \in Servers : RemoveServer(g, name)
  \/ \E g \in Procs : RS_Close(g)

\* admissions, connects and removals of one caller
SpecAdmit == Init /\ [][AdmitNext]_vars

(***************************************************************************)
(* WebSocket client: callWithContext, handleResponses, Close               *)
(***************************************************************************)

\* the most requests the callers issue
MaxRequests == 2

\* the goroutines that call the client
WSCallers == {"g1", "g2"}

WSFrame(method) == [op |-> "callWithContext", method |-> method, id |-> 0,
                    resp |-> << >>, err |-> ""]

\* the client after its constructor: no connection, no reader goroutine
WSInit ==
  /\ NewMCPManager(MaxClientsArg, 0)
  /\ mu = Free
  /\ transportClient = NewMCPWebSocketClient(ClientName)
  /\ pc = [g \in WSCallers \cup {Reader} |-> IF g = Reader THEN "no_reader" ELSE "idle"]
  /\ fr = [g \in WSCallers \cup {Reader} |-> IF g = Reader THEN ReaderFrame ELSE NoFrame]
  /\ ret = [g \in WSCallers \cup {Reader} |-> NoRet]

\* callWithContext, line 758: id := atomic.AddInt64(&c.requestID, 1)
WS_Call(g, method) ==
  /\ pc[g] = "idle"
  /\ transportClient.requestID < MaxRequests
  /\ transportClient' = [transportClient EXCEPT !.requestID = @ + 1]
  /\ Goto(g, "WS_register", [WSFrame(method) EXCEPT !.id = transportClient.requestID + 1])
  /\ UNCHANGED << maps, limits, mu >>

\* callWithContext, lines 767-771: c.responses[id] = respChan, a channel
\* with buffer 1
WS_Register(g) ==
  /\ pc[g] = "WS_register"
  /\ MuFree
  /\ transportClient' = [transportClient EXCEPT !.responses = MapPut(@, fr[g].id, << >>)]
  /\ Goto(g, "WS_send", fr[g])
  /\ UNCHANGED << maps, limits, mu >>

\* callWithContext, lines 779-782, and sendRequest, lines 812-832
WS_Send(g) ==
  /\ pc[g] = "WS_send"
  /\ IF transportClient.conn = "nil"
     THEN Goto(g, "WS_defer", [fr[g] EXCEPT !.err = "not_established"])
     ELSE \E ok \in BOOLEAN :
            IF ok THEN Goto(g, "WS_wait", fr[g])
            ELSE Goto(g, "WS_defer", [fr[g] EXCEPT !.err = "send_failed"])
  /\ UNCHANGED << maps, limits, mu, transportClient >>

\* what callWithContext returns for a response it has received, lines
\* 787-795: nil, or an error for a response with resp.Error or with a
\* result that does not unmarshal
ResponseErrors == {"", "JSON-RPC error", "failed to unmarshal result"}

\* callWithContext, lines 785-798: the select on respChan and ctx.Done()
WS_Wait(g) ==
  /\ pc[g] = "WS_wait"
  /\ LET c == transportClient
         id == fr[g].id
     IN  \/ /\ id \in DOMAIN c.responses /\ c.responses[id] # << >>
            /\ transportClient' = [c EXCEPT !.responses[id] = Tail(@)]
            /\ \E err \in ResponseErrors :
                 Goto(g, "WS_defer", [fr[g] EXCEPT !.resp = << Head(c.responses[id]) >>,
                                                  !.err = err])
         \/ /\ c.cancelled
            /\ UNCHANGED transportClient
            /\ Goto(g, "WS_defer", [fr[g] EXCEPT !.err = "context canceled"])
         \/ /\ HasDeadline(fr[g].method)
            /\ UNCHANGED transportClient
            /\ Goto(g, "WS_defer", [fr[g] EXCEPT !.err = "context deadline exceeded"])
  /\ UNCHANGED << maps, limits, mu >>

\* callWithContext returns and its deferred function runs, lines 773-777;
\* results is the response the call has received, also when it returns an
\* error for it
WS_Defer(g) ==
  /\ pc[g] = "WS_defer"
  /\ MuFree
  /\ transportClient' = [transportClient EXCEPT !.responses = DeleteResponse(@, fr[g].id)]
  /\ Done(g, [NoRet EXCEPT !.op = "callWithContext", !.err = fr[g].err, !.id = fr[g].id,
                           !.results = fr[g].resp])
  /\ UNCHANGED << maps, limits, mu >>

WSNext ==
  \/ \E g \in WSCallers : Start(g)
  \/ \E g \in WSCallers : ST_Dial(g)
  \/ \E g \in WSCallers : ST_Conn(g)
  \/ \E g \in WSCallers, method \in WSMethods : WS_Call(g, method)
  \/ \E g \in WSCallers : WS_Register(g)
  \/ \E g \in WSCallers : WS_Send(g)
  \/ \E g \in WSCallers : WS_Wait(g)
  \/ \E g \in WSCallers : WS_Defer(g)
  \/ \E id \in 1..MaxRequests : Respond(id)
  \/ \E r \in {Reader} : HR_Loop(r)
  \/ \E r \in {Reader} : HR_Conn(r)
  \/ \E r \in {Reader} : HR_Read(r)
  \/ \E r \in {Reader} : HR_Lookup(r)
  \/ \E r \in {Reader} : HR_Deliver(r)
  \/ \E g \in WSCallers : WS_Close(g)
  \/ \E g \in WSCallers : CLS_Conn(g)

\* callers, the reader goroutine and the server of one WebSocket client
SpecWS == WSInit /\ [][WSNext]_vars

\* the same, where every goroutine that can take a step takes one in the
\* end, and one that waits for c.mu gets it in the end although Start takes
\* it again and again; the server, new calls, Start and Close are not
\* obliged to happen
SpecWSFair ==
  /\ SpecWS
  /\ \A g \in WSCallers :
       /\ WF_vars(ST_Dial(g) \/ ST_Conn(g) \/ WS_Send(g) \/ WS_Wait(g) \/ CLS_Conn(g))
       /\ SF_vars(WS_Register(g) \/ WS_Defer(g))
  /\ WF_vars(HR_Loop(Reader) \/ HR_Conn(Reader) \/ HR_Read(Reader) \/ HR_Deliver(Reader))
  /\ SF_vars(HR_Lookup(Reader))

(***************************************************************************)
(* Concurrent calls on one manager                                         *)
(***************************************************************************)

LockProcs == {"g1", "g2"}

\* the descriptors admitted before the concurrent calls start
LockConfigs == << Config("fs", "npx"), ConfigT("git", "npx", "http") >>

\* the manager after NewMCPManager and one or two calls of AddServerLazy
LockInit ==
  /\ clients = {}
  /\ toolRouting = EmptyMap
  /\ \E n \in 1..Len(LockConfigs) :
       pendingConfigs = [s \in { LockConfigs[i].Name : i \in 1..n } |->
                           CHOOSE c \in Range(LockConfigs) : c.Name = s]
  /\ maxClients = MaxClientsArg
  /\ discoveredTools = EmptyMap
  /\ allToolsCache = EmptyMap
  /\ \E mt \in 0..MaxToolsArg :
       maxToolsPerDiscovery = IF mt <= 0 THEN DefaultMaxToolsPerDiscovery ELSE mt
  /\ mu = Free
  /\ transportClient = NoClient
  /\ pc = [g \in LockProcs |-> "idle"]
  /\ fr = [g \in LockProcs |-> NoFrame]
  /\ ret = [g \in LockProcs |-> NoRet]

\* a goroutine that has not made its call yet
NotCalled(g) == ret[g] = NoRet

\* the steps inside a call of goroutine g: taking the mutex again, and a
\* transport call that returns
LockStep(g) ==
  \/ EC_Lock(g) \/ EC_Connect(g)
  \/ GT_RLock(g) \/ GT_Reread(g) \/ GT_List(g)
  \/ AS_Lock(g) \/ AS_Connect(g)
  \/ ST_Iter(g) \/ ST_Relock(g) \/ HD_Filter(g) \/ HD_Add(g)
  \/ RS_Close(g) \/ CL_Close(g) \/ ET_io(g)

\* every goroutine makes one call
LockNext ==
  \/ \E g \in LockProcs, i \in 1..Len(LockConfigs) :
       NotCalled(g) /\ AddServerLazy(g, LockConfigs[i])
  \/ \E g \in LockProcs, name \in Servers : NotCalled(g) /\ EnsureConnected(g, name)
  \/ \E g \in LockProcs, name \in Servers : NotCalled(g) /\ GetToolsFromServer(g, name)
  \/ \E g \in LockProcs : NotCalled(g) /\ HandleDiscovery(g, <<"*">>)
  \/ \E g \in LockProcs : NotCalled(g) /\ ExecuteTool(g, Call(RF, NoArgs))
  \/ \E g \in LockProcs, name \in Servers : NotCalled(g) /\ RemoveServer(g, name)
  \/ \E g \in LockProcs : NotCalled(g) /\ Close(g)
  \/ \E g \in LockProcs : EC_Lock(g)
  \/ \E g \in LockProcs : EC_Connect(g)
  \/ \E g \in LockProcs : GT_RLock(g)
  \/ \E g \in LockProcs : GT_Reread(g)
  \/ \E g \in LockProcs : GT_List(g)
  \/ \E g \in LockProcs : AS_Lock(g)
  \/ \E g \in LockProcs : AS_Connect(g)
  \/ \E g \in LockProcs : ST_Iter(g)
  \/ \E g \in LockProcs : ST_Relock(g)
  \/ \E g \in LockProcs : HD_Filter(g)
  \/ \E g \in LockProcs : HD_Add(g)
  \/ \E g \in LockProcs : RS_Close(g)
  \/ \E g \in LockProcs : CL_Close(g)
  \/ \E g \in LockProcs : ET_io(g)

SpecLocks == LockInit /\ [][LockNext]_vars

\* the same, where a goroutine that can take the mutex takes it in the end
\* and every transport call returns
SpecLocksFair == SpecLocks /\ \A g \in LockProcs : WF_vars(LockStep(g))

(***************************************************************************)
(* Properties                                                              *)
(***************************************************************************)

G == DOMAIN pc

\* the labels at which a goroutine is inside a transport-client call
ClientCallLabels == {"EC_io", "AS_io", "RS_io", "CL_io", "GA_io", "GT_list", "ET_io"}

\* the tool names of a server's catalog that a pattern matches
Matching(pattern, s) ==
  { n \in Names(ServerCatalog(s)) : MatchToolPattern(pattern, n) }

\* C1: no server name is at once in pendingConfigs and in clients
C1_PendingXorConnected ==
  LockFree => (DOMAIN pendingConfigs) \cap clients = {}

\* C2: every routing entry names a connected server
C2_RoutesToConnected ==
  LockFree => \A t \in DOMAIN toolRouting : toolRouting[t] \in clients

\* C3: the connected and the pending servers together number at most maxClients
C3_WithinMaxClients ==
  LockFree => Cardinality(clients) + Cardinality(DOMAIN pendingConfigs) <= maxClients

\* C4: no goroutine holds the manager mutex while it is inside a call of a
\* transport client
C4_NoLockAcrossClientCall ==
  \A g \in G : pc[g] \in ClientCallLabels => (mu.writer # g /\ g \notin mu.readers)

\* C5: every discovered tool is in the cached catalog of a connected server
C5_DiscoveredInConnectedCatalogs ==
  LockFree =>
    \A n \in DOMAIN discoveredTools :
      \E s \in clients \cap DOMAIN allToolsCache :
        discoveredTools[n] \in Range(allToolsCache[s])

\* C6: the tools a discovery turn has matched never repeat a name and never
\* number more than maxToolsPerDiscovery, while the turn runs and when it
\* returns (found counts the new and the already known tools)
C6_DiscoveryWithinLimit ==
  \A g \in G :
    LET m == fr[g].matchedTools
    IN  /\ Len(m) <= maxToolsPerDiscovery
        /\ \A i, j \in 1..Len(m) : i # j => m[i].Name # m[j].Name
        /\ ret[g].op = "HandleDiscovery" =>
             /\ ret[g].found <= maxToolsPerDiscovery
             /\ Len(ret[g].tools) <= ret[g].found

\* a turn has returned exactly maxToolsPerDiscovery tools although the
\* servers it searched list more matching names
C6_Witness ==
  \E g \in G :
    /\ ret[g].op = "HandleDiscovery"
    /\ ret[g].found = maxToolsPerDiscovery
    /\ Cardinality(UNION { Matching(ret[g].pattern, s) : s \in Range(ret[g].serversTried) })
         > maxToolsPerDiscovery

\* C7: a HandleDiscovery that directly follows a HandleDiscovery with the
\* same pattern (no server failing in either) reports no new tool and leaves
\* the discovered set as it was
C7_SecondDiscoveryAddsNothing ==
  \A g \in G :
    (ret[g].op = "HandleDiscovery" /\ ret[g].prevSame /\ ret[g].skipped = {})
      => (ret[g].tools = << >> /\ ~ ret[g].changed)

\* C8: whatever order the range over discoveredTools takes, GetActiveTools
\* returns mcp_discover first, followed by one entry per discovered tool; on a
\* manager with nothing discovered it returns exactly [mcp_discover]
C8_ActiveToolsStartWithDiscover ==
  /\ \A r \in GetActiveToolsResults :
       /\ r[1] = MCPDiscoverTool
       /\ Len(r) = 1 + Cardinality(DOMAIN discoveredTools)
  /\ discoveredTools = EmptyMap => GetActiveToolsResults = { << MCPDiscoverTool >> }
  /\ \A g \in G :
       ret[g].op = "GetActiveTools" =>
         /\ Head(ret[g].tools) = MCPDiscoverTool
         /\ Len(ret[g].tools) = 1 + Cardinality(DOMAIN discoveredTools)

\* GetActiveTools has returned the meta-tool and two discovered tools
C8_Witness ==
  \E g \in G : ret[g].op = "GetActiveTools" /\ Len(ret[g].tools) >= 3

\* the case of C9: a discovery turn, started on a fresh manager with one
\* pending server, whose connect and listing succeeded and whose catalog has
\* more matching tools than maxToolsPerDiscovery, has returned
C9_Case(g) ==
  /\ ret[g].op = "HandleDiscovery"
  /\ ret[g].preFresh
  /\ ret[g].skipped = {}
  /\ Len(ret[g].serversTried) = 1
  /\ Cardinality(Matching(ret[g].pattern, ret[g].serversTried[1])) > maxToolsPerDiscovery

\* what C9 says of everything but the routing map
C9_Outcome(g) ==
  LET s == ret[g].serversTried[1]
  IN  /\ s \in clients
      /\ s \in DOMAIN allToolsCache /\ allToolsCache[s] = ServerCatalog(s)
      /\ Cardinality(DOMAIN discoveredTools) = maxToolsPerDiscovery
      /\ \A r \in GetActiveToolsResults :
           /\ Len(r) = 1 + maxToolsPerDiscovery
           /\ r[1] = MCPDiscoverTool
           /\ Range(Tail(r)) = Range(ret[g].tools)

\* C9 as stated: the routing map has exactly maxToolsPerDiscovery entries
C9_RoutingHasLimitEntries ==
  \A g \in G :
    C9_Case(g) =>
      (C9_Outcome(g) /\ Cardinality(DOMAIN toolRouting) = maxToolsPerDiscovery)

\* C9 amended: the routing map has one entry for every tool the server
\* listed, each naming that server
C9_RoutingHasCatalogEntries ==
  \A g \in G :
    C9_Case(g) =>
      /\ C9_Outcome(g)
      /\ DOMAIN toolRouting = Names(ServerCatalog(ret[g].serversTried[1]))
      /\ \A t \in DOMAIN toolRouting : toolRouting[t] = ret[g].serversTried[1]

C9_Witness == \E g \in G : C9_Case(g)

\* C10: the groups of a plan, concatenated, are the indices 0..|B|-1 of the batch
C10_PlanCoversBatch ==
  \A g \in G :
    ret[g].op = "AnalyzeExecutionPlan" =>
      Flatten(ret[g].plan.Groups) = [i \in 1..Len(ret[g].calls) |-> i - 1]

\* C11: when ExecuteWithPlan has run a batch with the planner's plan for it,
\* it has returned (not panicked) an array as long as the batch whose slot i
\* holds what the ExecuteTool of call i returned, a result of that call
C11_ResultsMatchBatch ==
  \A g \in G :
    (ret[g].op = "ExecuteWithPlan" /\ ret[g].plan \in PlannerPlans(ret[g].calls)) =>
      /\ ret[g].err = ""
      /\ Len(ret[g].results) = Len(ret[g].calls)
      /\ \A i \in 1..Len(ret[g].calls) :
           /\ ret[g].tasks[i - 1].pc = "done"
           /\ ret[g].results[i] = ret[g].tasks[i - 1].res
           /\ ret[g].results[i] \in ExecuteToolResults(ret[g].calls[i])

\* the group of a plan that holds index i
GroupOf(groups, i) == CHOOSE k \in 1..Len(groups) : i \in Range(groups[k])

\* the tasks of a running or a returned ExecuteWithPlan
TasksOf(g) == IF pc[g] = "idle" THEN ret[g].tasks ELSE fr[g].tasks
GroupsOf(g) == IF pc[g] = "idle" THEN ret[g].plan.Groups ELSE fr[g].plan.Groups

\* C12: while ExecuteWithPlan runs a plan, a call of a later group has not
\* started unless every call of every earlier group has returned; when every
\* group is a single call, at most one call is running
C12_GroupsInOrder ==
  \A g \in G :
    (pc[g] # "idle" \/ ret[g].op = "ExecuteWithPlan") =>
      LET tasks == TasksOf(g)
          groups == GroupsOf(g)
      IN  /\ \A i, j \in DOMAIN tasks :
               (GroupOf(groups, j) < GroupOf(groups, i) /\ tasks[i].pc # "new")
                 => tasks[j].pc = "done"
          /\ (\A k \in 1..Len(groups) : Len(groups[k]) = 1) =>
               Cardinality({ i \in DOMAIN tasks : tasks[i].pc \in {"run", "call"} }) <= 1

\* a call of the second group is inside CallTool after the two calls of the
\* first group ran concurrently and returned
C12_Witness ==
  \E g \in G :
    /\ pc[g] = "EW_wait"
    /\ Len(fr[g].plan.Groups) = 2
    /\ Len(fr[g].plan.Groups[1]) = 2
    /\ fr[g].k = 2
    /\ \E i \in Range(fr[g].plan.Groups[2]) : fr[g].tasks[i].pc = "call"
    /\ \A j \in Range(fr[g].plan.Groups[1]) : fr[g].tasks[j].pc = "done"

\* the batch [write_file(path:/a), read_file(path:/a)]
WriteThenRead ==
  << Call(WriteFile, PathArg(Str("/a"))), Call(ReadFile, PathArg(Str("/a"))) >>

\* C13: the plan for [write_file(path:/a), read_file(path:/a)] is
\* sequential, one group per call, and its reason is the mixed read/write one
C13_MixedReason ==
  \A g \in G :
    (ret[g].op = "AnalyzeExecutionPlan" /\ ret[g].calls = WriteThenRead) =>
      /\ ret[g].plan.RequiresSequential
      /\ ret[g].plan.Groups = << << 0 >>, << 1 >> >>
      /\ ret[g].plan.Reason = << "Mixed read and write operations detected" >>

\* the string-valued path and file arguments of a call, whatever its name
StringOperands(toolCall) ==
  { toolCall.Arguments[k].val :
      k \in { x \in {"path", "file"} \cap DOMAIN toolCall.Arguments :
                toolCall.Arguments[x].type = "string" } }

\* the operands that two or more calls of a batch have
SharedOperands(toolCalls) ==
  { v \in UNION { StringOperands(toolCalls[i]) : i \in 1..Len(toolCalls) } :
      \E i, j \in 1..Len(toolCalls) :
        i # j /\ v \in StringOperands(toolCalls[i]) /\ v \in StringOperands(toolCalls[j]) }

\* C14: the plan of a batch in which two or more calls have the same
\* string-valued path or file operand is sequential and its reason cites
\* such an operand
C14_SharedOperandSequential ==
  \A g \in G :
    (ret[g].op = "AnalyzeExecutionPlan" /\ Len(ret[g].calls) >= 2
       /\ SharedOperands(ret[g].calls) # {}) =>
      /\ ret[g].plan.RequiresSequential
      /\ \E v \in SharedOperands(ret[g].calls) :
           ret[g].plan.Reason = << "Multiple operations on the same file: ", v >>

\* the three conditions of the planner, read off the batch
MixedBatch(toolCalls) ==
  /\ \E i \in 1..Len(toolCalls) : IsWriteCall(toolCalls[i].Name)
  /\ \E i \in 1..Len(toolCalls) : IsReadCall(toolCalls[i].Name)

OrderedBatch(toolCalls) ==
  \E i \in 1..(Len(toolCalls) - 1) :
    OrderingPattern(toolCalls[i].Name, toolCalls[i + 1].Name)

\* C15: the plan of a batch of two or more calls is parallel, one group with
\* every index in order, exactly when the batch is not mixed, shares no
\* operand and has no ordering pattern; otherwise it is sequential with one
\* group per call in input order
C15_ParallelIffIndependent ==
  \A g \in G :
    (ret[g].op = "AnalyzeExecutionPlan" /\ Len(ret[g].calls) >= 2) =>
      LET toolCalls == ret[g].calls
          n == Len(toolCalls)
          dependent == \/ MixedBatch(toolCalls)
                       \/ SharedOperands(toolCalls) # {}
                       \/ OrderedBatch(toolCalls)
      IN  IF dependent
          THEN /\ ret[g].plan.RequiresSequential
               /\ ret[g].plan.Groups = [i \in 1..n |-> << i - 1 >>]
          ELSE /\ ~ ret[g].plan.RequiresSequential
               /\ ret[g].plan.Groups = << [i \in 1..n |-> i - 1] >>

\* C16: when Close returns, with or without errors, it has called Close on
\* the client of every server that was connected, and the five maps of the
\* manager are empty
C16_CloseEmptiesManager ==
  [][ \A g \in G :
        (pc[g] \in {"idle", "CL_io"} /\ pc'[g] = "idle" /\ ret'[g].op = "Close") =>
          /\ ret'[g].closed = clients
          /\ clients' = {}
          /\ pendingConfigs' = EmptyMap
          /\ toolRouting' = EmptyMap
          /\ allToolsCache' = EmptyMap
          /\ discoveredTools' = EmptyMap ]_vars

\* the operations a closed manager has to reject
RejectedWhenClosed ==
  {"AddServerLazy", "EnsureConnected", "GetToolsFromServer", "HandleDiscovery"}

\* C17: an operation called on a manager whose Close has just returned comes
\* back at once with the ManagerClosed error and leaves the maps as they are
C17_ClosedManagerRejects ==
  [][ \A g \in G :
        (pc[g] = "idle" /\ ret[g].op = "Close"
           /\ (ret'[g].op \in RejectedWhenClosed \/ fr'[g].op \in RejectedWhenClosed)) =>
          /\ pc'[g] = "idle"
          /\ ret'[g].err = "manager closed"
          /\ UNCHANGED maps ]_vars

\* C18: a Close that follows a Close, with no other call on the manager
\* between the two, returns no error, calls Close on no client and leaves
\* the maps as they are
C18_SecondCloseNoOp ==
  \A g \in G :
    (ret[g].op = "Close" /\ ret[g].prevSame) =>
      (ret[g].err = "" /\ ret[g].closed = {} /\ ~ ret[g].changed)

\* a Close has returned right after a Close, on a manager that still has a
\* pending server
C18_Witness ==
  \E g \in G : ret[g].op = "Close" /\ ret[g].prevSame /\ pendingConfigs # EmptyMap

\* C19: when EnsureConnected has failed at Initialize or at ListTools, the
\* half-open client was closed, the call changed neither the connected, the
\* routing nor the pending map, and the server is still pending and not
\* connected; an EnsureConnected repeated after such a failure is not
\* refused: it gets to the connect again
C19_FailedConnectKeepsPending ==
  \A g \in G :
    /\ (ret[g].op = "EnsureConnected" /\ ret[g].err \in {"init_failed", "list_failed"}) =>
         /\ ret[g].closed = {ret[g].name}
         /\ ~ ret[g].changed
         /\ ret[g].name \in DOMAIN pendingConfigs
         /\ ret[g].name \notin clients
    /\ (ret[g].op = "EnsureConnected" /\ ret[g].prevSame) =>
         ret[g].err \in ConnectOutcomes

\* an EnsureConnected has succeeded right after one that failed for the same server
C19_Witness ==
  \E g \in G :
    /\ ret[g].op = "EnsureConnected" /\ ret[g].prevSame /\ ret[g].err = ""
    /\ ret[g].name \in clients

\* C20: when EnsureConnected has succeeded on a pending server, every tool
\* the server lists is routed to it, the server is connected and no longer
\* pending, and its tool list is in the catalog cache; when the server was
\* already connected the call succeeded and changed nothing
C20_ConnectRoutesAndCaches ==
  \A g \in G :
    (ret[g].op = "EnsureConnected" /\ ret[g].err = "") =>
      IF ret[g].wasPending
      THEN /\ \A t \in Names(ServerCatalog(ret[g].name)) :
                t \in DOMAIN toolRouting /\ toolRouting[t] = ret[g].name
           /\ ret[g].name \in clients
           /\ ret[g].name \notin DOMAIN pendingConfigs
           /\ ret[g].name \in DOMAIN allToolsCache
           /\ allToolsCache[ret[g].name] = ServerCatalog(ret[g].name)
      ELSE ~ ret[g].changed

\* the kind of transport client that matches a descriptor's transport
TransportClient(transport) ==
  IF transport \in {"", "stdio"} THEN "stdio"
  ELSE IF transport \in {"http", "streamable_http"} THEN "http"
  ELSE "websocket"

\* C21: the transport client a connect (EnsureConnected, AddServer) has
\* constructed is the one that matches the transport of the descriptor
C21_ClientMatchesTransport ==
  \A g \in G :
    ret[g].client # NoOne => ret[g].client = TransportClient(ret[g].config.Transport)

\* C22: every pending descriptor has passed validateServerConfig, a
\* transport client is only constructed for a descriptor that has passed
\* it, and an admission (AddServerLazy, AddServer) of a descriptor it
\* refuses has returned an error and changed no map
C22_OnlyValidatedAdmitted ==
  /\ \A n \in DOMAIN pendingConfigs : validateServerConfig(pendingConfigs[n]) = ""
  /\ \A g \in G :
       /\ pc[g] \in {"EC_io", "AS_io"} => validateServerConfig(fr[g].config) = ""
       /\ ret[g].client # NoOne => validateServerConfig(ret[g].config) = ""
       /\ (ret[g].op \in {"AddServerLazy", "AddServer"}
             /\ validateServerConfig(ret[g].config) # "") =>
            (ret[g].err # "" /\ ~ ret[g].changed)

\* an admission was refused by the validator while another descriptor is pending
C22_Witness ==
  \E g \in G :
    /\ ret[g].op \in {"AddServerLazy", "AddServer"}
    /\ ret[g].err = "invalid_config"
    /\ pendingConfigs # EmptyMap

RemoteTransports == {"http", "streamable_http", "websocket"}

\* C23: an AddServerLazy of a descriptor with a remote transport, on a
\* manager with room for it, succeeds exactly when the name is valid,
\* whatever the command
C23_RemoteSkipsCommandChecks ==
  \A g \in G :
    (ret[g].op = "AddServerLazy" /\ ret[g].config.Transport \in RemoteTransports
       /\ ret[g].err # "max_servers") =>
      (ret[g].err = "" <=> ret[g].config.Name # "")

\* C24: an ExecuteTool of a name that is not in the routing map calls no
\* transport client; for mcp_discover it hands the call to discovery and does
\* not answer "tool not found", for any other name it answers "tool not
\* found"
C24_UnroutedCall ==
  \A g \in G :
    (ret[g].op = "ExecuteTool" /\ ret[g].calls[1].Name \notin DOMAIN toolRouting) =>
      /\ ret[g].name = NoOne
      /\ IF ret[g].calls[1].Name = MCPDiscoverName
         THEN ret[g].results[1].Error = << >>
         ELSE ret[g].results[1] = ErrorResult("tool not found", ret[g].calls[1].Name)

\* C25: after an ExecuteTool whose client call failed, the server of that
\* client is no longer connected and its descriptor is pending again
C25_FailedCallDropsClient ==
  \A g \in G :
    (ret[g].op = "ExecuteTool" /\ ret[g].name # NoOne
       /\ ret[g].results[1].Error # << >>) =>
      (ret[g].name \notin clients /\ ret[g].name \in DOMAIN pendingConfigs)

\* the number of differently named tools the pattern matches on the servers
Found(pattern, servers) ==
  Cardinality(UNION { Matching(pattern, s) : s \in servers })

Min(a, b) == IF a <= b THEN a ELSE b

\* C26: a discovery turn returns no error; the servers it skipped after a
\* failed connect or listing are among the servers it searched, and it
\* returns the matching tools of the other servers it scanned, up to the
\* limit
C26_FailedServerSkipped ==
  \A g \in G :
    ret[g].op = "HandleDiscovery" =>
      /\ ret[g].err = ""
      /\ ret[g].skipped \subseteq Range(ret[g].serversTried)
      /\ ret[g].found = Min(maxToolsPerDiscovery,
                            Found(ret[g].pattern,
                                  Range(ret[g].serversTried) \ ret[g].skipped))

\* a turn has searched two servers, skipped one and matched tools on the other
C26_Witness ==
  \E g \in G :
    /\ ret[g].op = "HandleDiscovery"
    /\ Len(ret[g].serversTried) = 2
    /\ Cardinality(ret[g].skipped) = 1
    /\ ret[g].found > 0

\* the last request a call has sent
LastRequest(r) == r.requests[Len(r.requests)]

\* C27: the name a CallTool sends in tools/call is the name it was given
\* without the leading "<server>:", when it has that prefix, for the HTTP and
\* for the WebSocket client
C27_CallNameStripped ==
  \A g \in G :
    (ret[g].op = "CallTool" /\ "tools/call" \in transportClient.sent) =>
      LastRequest(ret[g]).name = TrimPrefix(ret[g].tool, transportClient.name \o <<":">>)

\* C28: of two Initialize calls that have both succeeded on one client, at
\* most one has sent the initialize request and the notification
C28_InitializeOnce ==
  \A g, h \in G :
    (g # h /\ ret[g].op = "Initialize" /\ ret[h].op = "Initialize"
       /\ ret[g].err = "" /\ ret[h].err = "") =>
      (ret[g].requests = << >> \/ ret[h].requests = << >>)

\* C29: a request that the HTTP client has sent while it held a session id
\* (the notification of Initialize, tools/list, tools/call) carries that id
\* in its mcp-session-id header
C29_SessionOnLaterRequests ==
  \A g \in G :
    (transportClient.kind = "http" /\ ret[g].op \in {"Initialize", "ListTools", "CallTool"}
       /\ ret[g].requests # << >> /\ ret[g].captured # "") =>
      LastRequest(ret[g]).session = ret[g].captured

Leading(p) == HasPrefix(p, <<"*">>)
Trailing(p) == HasSuffix(p, <<"*">>)
HasStar(p) == \E i \in 1..Len(p) : p[i] = "*"

\* the decision order with a substring test of the stripped text for every
\* pattern that has a star at an end, and a last substring test only for a
\* pattern without any star
ClaimedMatch(pattern0, toolName0) ==
  LET p == ToLower(pattern0)
      n == ToLower(toolName0)
  IN  IF p = n THEN TRUE
      ELSE IF p = <<"*">> THEN TRUE
      ELSE IF (Leading(p) \/ Trailing(p)) /\ Contains(n, Trim(p, "*")) THEN TRUE
      ELSE IF GlobMatches(p, n) THEN TRUE
      ELSE IF ~ HasStar(p) /\ Contains(n, p) THEN TRUE
      ELSE FALSE

\* the decision order with a substring test of the stripped text when it is
\* not empty, and a last substring test of the whole pattern when it has no
\* star at either end
OrderedMatch(pattern0, toolName0) ==
  LET p == ToLower(pattern0)
      n == ToLower(toolName0)
  IN  IF p = n THEN TRUE
      ELSE IF p = <<"*">> THEN TRUE
      ELSE IF (Leading(p) \/ Trailing(p)) /\ Trim(p, "*") # << >>
              /\ Contains(n, Trim(p, "*")) THEN TRUE
      ELSE IF GlobMatches(p, n) THEN TRUE
      ELSE IF ~ Leading(p) /\ ~ Trailing(p) /\ Contains(n, p) THEN TRUE
      ELSE FALSE

\* C30 as stated: the result of MatchToolPattern is the result of the decision
\* order whose third step does not ask for a non-empty stripped text and
\* whose last step asks for a pattern without any star
C30_ClaimedOrder ==
  \A g \in G :
    ret[g].op = "MatchToolPattern" =>
      ret[g].matched = ClaimedMatch(ret[g].pattern, ret[g].tool)

\* C30: the result of MatchToolPattern does not change when pattern and name
\* are lower-cased, and it is the result of the decision order: equal; "*";
\* non-empty stripped text of a pattern with a star at an end is a substring;
\* glob match; pattern without a star at either end is a substring; the
\* three example pairs give match, match, no match
C30_DecisionOrder ==
  \A g \in G :
    ret[g].op = "MatchToolPattern" =>
      /\ ret[g].matched = MatchToolPattern(ToLower(ret[g].pattern), ToLower(ret[g].tool))
      /\ ret[g].matched = OrderedMatch(ret[g].pattern, ret[g].tool)
      /\ << ret[g].pattern, ret[g].tool >> \in {FileInList, GitUpper} => ret[g].matched
      /\ << ret[g].pattern, ret[g].tool >> = GitInFile => ~ ret[g].matched

\* a pattern with a star inside and none at its ends has matched a name in
\* upper case that the glob does not accept
C30_Witness ==
  \E g \in G :
    /\ ret[g].op = "MatchToolPattern"
    /\ ret[g].matched
    /\ HasStar(ret[g].pattern) /\ ~ Leading(ret[g].pattern) /\ ~ Trailing(ret[g].pattern)
    /\ ret[g].tool # ToLower(ret[g].tool)
    /\ ~ GlobMatches(ToLower(ret[g].pattern), ToLower(ret[g].tool))

\* a pattern that is a text without stars followed by one star / preceded by
\* one star
PrefixPattern(p) == Len(p) >= 2 /\ Trailing(p) /\ ~ HasStar(SubSeq(p, 1, Len(p) - 1))
SuffixPattern(p) == Len(p) >= 2 /\ Leading(p) /\ ~ HasStar(Tail(p))

\* C31: a pattern "text*" matches only names that begin with the text, and
\* a pattern "*text" matches only names that end with the text
C31_PrefixSuffixAnchored ==
  \A g \in G :
    (ret[g].op = "MatchToolPattern" /\ ret[g].matched) =>
      LET p == ToLower(ret[g].pattern)
          n == ToLower(ret[g].tool)
      IN  /\ PrefixPattern(p) => HasPrefix(n, SubSeq(p, 1, Len(p) - 1))
          /\ SuffixPattern(p) => HasSuffix(n, Tail(p))

\* C32: no step replaces the descriptor that is stored for a name by another
\* descriptor
C32_DescriptorImmutable ==
  [][ \A n \in DOMAIN pendingConfigs :
        n \in DOMAIN pendingConfigs' => pendingConfigs'[n] = pendingConfigs[n] ]_vars

\* C33: a discovery turn that has not stopped at the limit has searched
\* every connected server whose listing did not fail, also the servers that
\* were connected before the turn
C33_ConnectedServersScanned ==
  \A g \in G :
    (ret[g].op = "HandleDiscovery" /\ ret[g].found < maxToolsPerDiscovery) =>
      (clients \ ret[g].skipped) \subseteq Range(ret[g].serversTried)

\* C34: when RemoveServer has removed a server, the catalog cache holds no
\* tool list for it, so that a discovery turn after a reconnect cannot match
\* against the list of the earlier connection
C34_CacheInvalidatedOnRemove ==
  \A g \in G :
    (ret[g].op = "RemoveServer" /\ ret[g].err = "") =>
      ret[g].name \notin DOMAIN allToolsCache

\* C35: a client is marked initialized only after its initialize request
\* and its notifications/initialized notification have been sent
C35_InitializedAfterNotification ==
  transportClient.initialized =>
    {"initialize", "notifications/initialized"} \subseteq transportClient.sent

\* the callers that are inside callWithContext
InCall(g) == pc[g] \in {"WS_register", "WS_send", "WS_wait", "WS_defer"}

\* C36: the calls in flight have different ids, none above the counter; a
\* channel of the response table holds at most one response and only one
\* with its own id; the reader sends a response only into the channel
\* registered under the response's id; a call that returned a response
\* returned the one with its id, and the id of a call that has returned is
\* not in the table
C36_ResponsesRoutedById ==
  /\ \A g, h \in WSCallers :
       (g # h /\ InCall(g) /\ InCall(h)) => fr[g].id # fr[h].id
  /\ \A g \in WSCallers :
       InCall(g) => (fr[g].id >= 1 /\ fr[g].id <= transportClient.requestID)
  /\ \A id \in DOMAIN transportClient.responses :
       /\ Len(transportClient.responses[id]) <= 1
       /\ \A i \in 1..Len(transportClient.responses[id]) :
            transportClient.responses[id][i].ID = id
  /\ pc[Reader] = "HR_deliver" => fr[Reader].chan = fr[Reader].resp.ID
  /\ \A g \in WSCallers :
       /\ (pc[g] = "WS_defer" /\ fr[g].resp # << >>) => fr[g].resp[1].ID = fr[g].id
       /\ ret[g].op = "callWithContext" =>
            /\ ret[g].results # << >> => ret[g].results[1].ID = ret[g].id
            /\ \/ ret[g].id \notin DOMAIN transportClient.responses
               \/ \E h \in WSCallers : InCall(h) /\ fr[h].id = ret[g].id

\* the later of two calls has returned its response while the earlier one
\* still waits with an empty channel
C36_Witness ==
  \E g, h \in WSCallers :
    /\ ret[g].op = "callWithContext" /\ ret[g].results # << >>
    /\ pc[h] = "WS_wait" /\ fr[h].id < ret[g].id
    /\ transportClient.responses[fr[h].id] = << >>

\* C37: a call that waits for its response returns in the end once its
\* response is in its channel, once Close was called, or once the reader
\* goroutine has ended
C37_InFlightCallReturns ==
  \A g \in WSCallers :
    (pc[g] = "WS_wait"
       /\ (transportClient.cancelled \/ pc[Reader] = "HR_exit"
           \/ transportClient.responses[fr[g].id] # << >>))
      ~> (pc[g] = "idle")

\* where a goroutine waits for the mutex, and where it holds the write lock
AcquireLabels == {"EC_lock", "AS_lock", "GT_rlock", "GT_reread", "ST_relock",
                  "HD_filter", "HD_add"}
HoldLabels == {"EC_io", "AS_io", "RS_io", "CL_io", "ST_loop"}

\* the mutex is held by exactly the goroutine that is inside a locked
\* section: nobody asks for it while holding it, SearchTools holds it at
\* every turn of its loop and at its return, and it is free when all calls
\* have returned
LockBalanced ==
  /\ \A g \in LockProcs : pc[g] \in AcquireLabels => mu.writer # g
  /\ \A g \in LockProcs : pc[g] \in HoldLabels <=> mu.writer = g
  /\ mu.readers = {}

\* C38: the mutex is balanced at every point, and every call of a set of
\* concurrent calls returns when every transport call returns
C38_NoDeadlockOnMutex ==
  /\ []LockBalanced
  /\ \A g \in LockProcs : (pc[g] # "idle") ~> (pc[g] = "idle")

\* SearchTools waits to take the mutex again after a failed AddServer or
\* GetToolsFromServer while another goroutine holds it across a transport
\* call
C38_Witness ==
  \E g, h \in LockProcs :
    /\ pc[g] = "ST_relock" /\ fr[g].phase \in {"as_err", "gt_err"}
    /\ mu.writer = h /\ pc[h] \in HoldLabels

\* C39: every tool GetActiveTools presents besides mcp_discover can be
\* executed: its name is in the routing map and the server it is routed to
\* is connected
C39_ActiveToolsExecutable ==
  \A g \in G :
    ret[g].op = "GetActiveTools" =>
      \A i \in 2..Len(ret[g].tools) : LookupClient(ret[g].tools[i].Name) # NoOne

\* C40: after a discovery turn every tool it added to the discovered set is
\* routed to the server whose catalog supplied its schema
C40_RoutedToSchemaSource ==
  \A g \in G :
    ret[g].op = "HandleDiscovery" =>
      \A i \in 1..Len(ret[g].tools) :
        /\ ret[g].tools[i].Name \in DOMAIN toolRouting
        /\ ret[g].tools[i] \in Range(ServerCatalog(toolRouting[ret[g].tools[i].Name]))

====
